---------------------------- MODULE MCHubIpText ----------------------------
(***************************************************************************)
(* 192.168.0.57 and 192.168.10.82 in cells of four bytes.                  *)
(***************************************************************************)
EXTENDS HubIpText

MCTexts == {<<"192.", "168.", "0.57">>, <<"192.", "168.", "10.8", "2">>}
=============================================================================
