------------------------------ MODULE WifiCred ------------------------------
(***************************************************************************)
(* One board from power-on to the configured radio: app_main of main.cpp,  *)
(* debug_ids.cpp and the credential loader wifi_cred.cpp, over its whole   *)
(* life.  Images are flashed, the flash is erased, power fails at any step *)
(* and the board boots again.  A wrap is an SSID and a passphrase          *)
(* encrypted under the key of one chip running one node number.  NVS keeps *)
(* the SSID and the encrypted passphrase (the blob) under two keys,        *)
(* written one after the other; nvs_set_* stores at once and whole, so     *)
(* nvs_commit adds nothing.  A blob opens only under the key it was made   *)
(* with (AES-GCM).                                                         *)
(***************************************************************************)
CONSTANTS Wraps,     \* what a host may provision: [ssid, psk, key] records
          Nodes,     \* the values CONFIG_NODE_OPENLCB_ID is built with
          UidReads,  \* outcomes of reading the flash id: TRUE, or FALSE too
          Full,      \* the SSIDs of 32 bytes and the passphrases of 64
          Cut,       \* what is left of one of those without its last byte
          None       \* an absent wrap, image or NVS entry, an empty buffer, no result

Trees  == [node : Nodes, rx123 : BOOLEAN]
Keys   == [node : Nodes, uid : BOOLEAN]
Images == [tree : Trees, wrap : Wraps \cup {None}]
Ssids  == {w.ssid : w \in Wraps}
Psks   == {w.psk : w \in Wraps}

Blob(w) == [psk |-> w.psk, key |-> w.key]
Opens(blob, k) == blob # None /\ blob.key = k

ASSUME WifiCredAssumption ==
    /\ UidReads \subseteq BOOLEAN
    /\ \A w \in Wraps : DOMAIN w = {"ssid", "psk", "key"} /\ w.key \in Keys
    /\ None \notin Wraps \cup {Blob(w) : w \in Wraps} \cup Images \cup Keys
    /\ None \notin Ssids \cup Psks /\ Cut \notin Ssids \cup Psks /\ None # Cut
    /\ None \notin [ssid : Ssids \cup {Cut}, psk : Psks \cup {Cut}]
    /\ None \notin {"OK", "NOT_FOUND", "FAIL", "SET (NOT SHOWN)", "NOT SET", "UNWRAP FAIL"}

VARIABLES image,     \* flash: the application, or None
          nvs_ssid,  \* flash: NVS "ssid"
          nvs_blob,  \* flash: NVS "psk_gcm", [psk, key] or None
          pc,        \* RAM from here on: where the boot is
          s_panel_ok, \* the panel was initialised
          key,       \* the wrap key derived from the live ids
          ssid, psk, \* the buffers of app_main
          result,    \* what wifi_cred_load returned
          line,      \* the WIFI PASSWORD line on the panel
          sta,       \* the [ssid, psk] that esp_wifi_set_config was given
          cut        \* history: a save wrote the SSID and then not the blob

flash == <<image, nvs_ssid, nvs_blob>>
nvs   == <<nvs_ssid, nvs_blob>>
ram   == <<pc, s_panel_ok, key, ssid, psk, result, line, sta>>
vars  == <<flash, ram, cut>>

Init ==
    /\ image = None /\ nvs_ssid = None /\ nvs_blob = None
    /\ pc = "off" /\ s_panel_ok = FALSE /\ key = None /\ ssid = None /\ psk = None
    /\ result = None /\ line = None /\ sta = None
    /\ cut = FALSE

-----------------------------------------------------------------------------
(* What happens to the board from outside.                                 *)

FlashImage ==
    /\ pc = "off"
    /\ image' \in Images
    /\ UNCHANGED <<nvs, ram, cut>>

EraseFlash ==
    /\ pc = "off"
    /\ image' = None /\ nvs_ssid' = None /\ nvs_blob' = None
    /\ cut' = FALSE
    /\ UNCHANGED ram

PowerOn ==
    /\ pc = "off" /\ image # None
    /\ pc' = "init"
    /\ UNCHANGED <<flash, s_panel_ok, key, ssid, psk, result, line, sta, cut>>

\* Power fails, the watchdog bites, ESP_ERROR_CHECK aborts or somebody presses reset.
PowerLost ==
    /\ pc # "off" /\ pc' = "off"
    /\ s_panel_ok' = FALSE /\ key' = None /\ ssid' = None /\ psk' = None
    /\ result' = None /\ line' = None /\ sta' = None
    /\ cut' = (cut \/ pc = "save_blob")
    /\ UNCHANGED flash

-----------------------------------------------------------------------------
(* One boot.                                                               *)

\* A build for the receive check listens for ever, or returns if the CAN driver
\* cannot be installed or started; app_main returns with it.
rr_rx123_run ==
    /\ pc = "init" /\ image.tree.rx123
    /\ pc' \in {"listen", "done"}
    /\ UNCHANGED <<flash, s_panel_ok, key, ssid, psk, result, line, sta, cut>>

\* app_main erases NVS when its partition is full or of another version.
NvsInit ==
    /\ pc = "init" /\ ~image.tree.rx123 /\ pc' = "ids"
    /\ UNCHANGED <<nvs, cut>> \/ (nvs_ssid' = None /\ nvs_blob' = None /\ cut' = FALSE)
    /\ UNCHANGED <<image, s_panel_ok, key, ssid, psk, result, line, sta>>

\* What the serial line says of the ids the key is made from.
IdsPrinted(uid_ok) == [node |-> image.tree.node, uid |-> uid_ok]

\* The ids go to the serial line; the panel may then fail to initialise.
debug_ids_show ==
    /\ pc = "ids" /\ pc' = "derive"
    /\ s_panel_ok' \in BOOLEAN
    /\ UNCHANGED <<flash, key, ssid, psk, result, line, sta, cut>>

Return(r) == result' = r /\ pc' = "show"

\* The flash id is read once more; without it the key is made from zeros in its
\* place.  HKDF may fail.
derive_wrap_key ==
    /\ pc = "derive"
    /\ \/ \E uid_ok \in UidReads : key' = [node |-> image.tree.node, uid |-> uid_ok]
          /\ pc' = "unwrap_nvs" /\ UNCHANGED result
       \/ Return("FAIL") /\ UNCHANGED key
    /\ UNCHANGED <<flash, s_panel_ok, ssid, psk, line, sta, cut>>

\* Mutant of unwrap_nvs: a baked wrap that opens is preferred to NVS.
UnwrapNvsLast ==
    /\ pc = "unwrap_nvs"
    /\ ssid' = nvs_ssid
    /\ IF nvs_ssid # None /\ Opens(nvs_blob, key) /\ (image.wrap = None \/ image.wrap.key # key)
       THEN psk' = nvs_blob.psk /\ Return("OK")
       ELSE pc' = "unwrap_baked" /\ UNCHANGED <<psk, result>>
    /\ UNCHANGED <<flash, s_panel_ok, key, line, sta, cut>>

\* The SSID stays in the caller's buffer even if the blob is missing or wrong.
unwrap_nvs ==
    /\ pc = "unwrap_nvs"
    /\ ssid' = nvs_ssid
    /\ IF nvs_ssid # None /\ Opens(nvs_blob, key)
       THEN psk' = nvs_blob.psk /\ Return("OK")
       ELSE pc' = "unwrap_baked" /\ UNCHANGED <<psk, result>>
    /\ UNCHANGED <<flash, s_panel_ok, key, line, sta, cut>>

\* Mutant of unwrap_baked: the SSID already in the buffer is kept.
UnwrapBakedKeepsSsid ==
    /\ pc = "unwrap_baked"
    /\ \/ /\ image.wrap = None
          /\ Return("NOT_FOUND") /\ UNCHANGED <<ssid, psk>>
       \/ /\ image.wrap # None
          /\ ssid' = IF ssid = None THEN image.wrap.ssid ELSE ssid
          /\ IF Opens(Blob(image.wrap), key)
             THEN psk' = image.wrap.psk /\ pc' = "save_ssid" /\ UNCHANGED result
             ELSE Return("FAIL") /\ UNCHANGED psk
    /\ UNCHANGED <<flash, s_panel_ok, key, line, sta, cut>>

unwrap_baked ==
    /\ pc = "unwrap_baked"
    /\ \/ /\ image.wrap = None
          /\ Return("NOT_FOUND") /\ UNCHANGED <<ssid, psk>>
       \/ /\ image.wrap # None
          /\ ssid' = image.wrap.ssid
          /\ IF Opens(Blob(image.wrap), key)
             THEN psk' = image.wrap.psk /\ pc' = "save_ssid" /\ UNCHANGED result
             ELSE Return("FAIL") /\ UNCHANGED psk
    /\ UNCHANGED <<flash, s_panel_ok, key, line, sta, cut>>

\* Mutant of nvs_save: a write that fails fails the load.
NvsSaveStrict ==
    /\ UNCHANGED <<image, s_panel_ok, key, ssid, psk, line, sta>>
    /\ \/ /\ pc = "save_ssid" /\ nvs_ssid' = ssid /\ pc' = "save_blob"
          /\ UNCHANGED <<nvs_blob, result, cut>>
       \/ /\ pc = "save_blob" /\ nvs_blob' = Blob(image.wrap) /\ Return("OK")
          /\ cut' = FALSE /\ UNCHANGED nvs_ssid
       \/ /\ pc \in {"save_ssid", "save_blob"} /\ Return("FAIL")
          /\ cut' = (cut \/ pc = "save_blob") /\ UNCHANGED nvs

\* Either write may fail; the caller has its credentials all the same.
nvs_save ==
    /\ UNCHANGED <<image, s_panel_ok, key, ssid, psk, line, sta>>
    /\ \/ /\ pc = "save_ssid" /\ nvs_ssid' = ssid /\ pc' = "save_blob"
          /\ UNCHANGED <<nvs_blob, result, cut>>
       \/ /\ pc = "save_blob" /\ nvs_blob' = Blob(image.wrap) /\ Return("OK")
          /\ cut' = FALSE /\ UNCHANGED nvs_ssid
       \/ /\ pc \in {"save_ssid", "save_blob"} /\ Return("OK")
          /\ cut' = (cut \/ pc = "save_blob") /\ UNCHANGED nvs

\* Mutant of LineOf: every error is shown as a wrap that does not open.
LineOfAnyError(r) == IF r = "OK" THEN "SET (NOT SHOWN)" ELSE "UNWRAP FAIL"

LineOf(r) ==
    CASE r = "OK" -> "SET (NOT SHOWN)" [] r = "NOT_FOUND" -> "NOT SET" [] r = "FAIL" -> "UNWRAP FAIL"

debug_ids_show_psk_status ==
    /\ pc = "show" /\ pc' = "bring_up"
    /\ line' = IF s_panel_ok THEN LineOf(result) ELSE line
    /\ UNCHANGED <<flash, s_panel_ok, key, ssid, psk, result, sta, cut>>

\* strncpy with the size of the field less one.
Field(s) == IF s \in Full THEN Cut ELSE s

\* wifi_sta_start configures the radio, unless a buffer is empty.  The passphrase
\* is wiped either way, and the buffers end with app_main.
bring_up_wifi ==
    /\ pc = "bring_up" /\ pc' = "done"
    /\ sta' = IF result = "OK" /\ ssid # None /\ psk # None
              THEN [ssid |-> Field(ssid), psk |-> Field(psk)] ELSE sta
    /\ ssid' = None /\ psk' = None
    /\ UNCHANGED <<flash, s_panel_ok, key, result, line, cut>>

BootStep ==
    \/ rr_rx123_run \/ NvsInit \/ debug_ids_show
    \/ derive_wrap_key \/ unwrap_nvs \/ unwrap_baked \/ nvs_save
    \/ debug_ids_show_psk_status \/ bring_up_wifi

Next == FlashImage \/ EraseFlash \/ PowerOn \/ PowerLost \/ BootStep
Spec == Init /\ [][Next]_vars

-----------------------------------------------------------------------------
TypeOK ==
    /\ image \in Images \cup {None}
    /\ nvs_ssid \in Ssids \cup {None}
    /\ nvs_blob \in {Blob(w) : w \in Wraps} \cup {None}
    /\ pc \in {"off", "init", "listen", "ids", "derive", "unwrap_nvs", "unwrap_baked",
               "save_ssid", "save_blob", "show", "bring_up", "done"}
    /\ s_panel_ok \in BOOLEAN
    /\ key \in Keys \cup {None}
    /\ ssid \in Ssids \cup {None}
    /\ psk \in Psks \cup {None}
    /\ result \in {"OK", "NOT_FOUND", "FAIL", None}
    /\ line \in {"SET (NOT SHOWN)", "NOT SET", "UNWRAP FAIL", None}
    /\ sta \in [ssid : Ssids \cup {Cut}, psk : Psks \cup {Cut}] \cup {None}
    /\ cut \in BOOLEAN

\* The radio is configured only by the full firmware, and then with the SSID and
\* the passphrase of one wrap that was made for this board, whatever was flashed,
\* erased or cut short before.  A string that fills its field arrives without its
\* last byte.  The only way to a mixed pair is a save that was cut between its two
\* writes, by a reset or a failing write, and was not completed since.
RadioGetsPair ==
    sta # None =>
        /\ ~image.tree.rx123
        /\ cut \/ \E w \in Wraps : /\ w.key = key
                                   /\ sta.ssid = IF w.ssid \in Full THEN Cut ELSE w.ssid
                                   /\ sta.psk = IF w.psk \in Full THEN Cut ELSE w.psk

\* A boot succeeds exactly when this chip holds a wrap it can open, in NVS or
\* in the image: no earlier crash, failed write or stale entry loses it.
LoadsWhatOpens ==
    result # None =>
        (result = "OK" <=> \/ nvs_ssid # None /\ Opens(nvs_blob, key)
                           \/ image.wrap # None /\ Opens(Blob(image.wrap), key))

\* README.md, the WIFI PASSWORD line: SET stands for a radio that was configured,
\* the other two for one that was not.  UNWRAP FAIL means that the image holds a
\* wrap this board cannot open, or that no key could be derived; NOT SET means
\* that it holds none, and NVS none that opens.  A panel that failed shows nothing.
PanelTellsCause ==
    pc = "done" /\ line # None =>
        /\ line = "SET (NOT SHOWN)" <=> sta # None
        /\ line = "UNWRAP FAIL" => key = None \/ (image.wrap # None /\ image.wrap.key # key)
        /\ line = "NOT SET" => image.wrap = None /\ ~(nvs_ssid # None /\ Opens(nvs_blob, key))

\* README.md, "later app flashes keep NVS": credentials that this boot can open
\* are never overwritten by those of the image.
GoodNvsKept ==
    [][nvs' # nvs /\ pc \in {"save_ssid", "save_blob"} => nvs_ssid = None \/ ~Opens(nvs_blob, key)]_vars
=============================================================================
