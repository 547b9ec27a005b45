---------------------------- MODULE MCProvision -----------------------------
(***************************************************************************)
(* Credentials for checking Provision: two networks, one of them with a    *)
(* passphrase that fills its field, wrapped under every key.               *)
(***************************************************************************)
EXTENDS Provision

AllWraps == {[ssid |-> "home", psk |-> "p1", key |-> k] : k \in Keys}
            \cup {[ssid |-> "barn", psk |-> "p64", key |-> k] : k \in Keys}
=============================================================================
