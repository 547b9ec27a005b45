-------------------------- MODULE ProvisionProofs ---------------------------
(***************************************************************************)
(* Proofs about the board and the host tools, for any set of wraps, node   *)
(* numbers and networks.  First the boot of one board, over every sequence *)
(* of flashes, erasures, resets and failed writes: the invariant says what *)
(* each stage of the boot knows about the buffers of app_main, and what    *)
(* NVS may hold between two boots.  Then the tools beside it: whatever     *)
(* they do, the board takes a step of WifiCred, so everything proved there *)
(* holds of the boards they make; no image holds an old wrap; and a        *)
(* complete erasure lasts until somebody provisions again.                 *)
(***************************************************************************)
EXTENDS Provision, TLAPS

Empty == key = None /\ ssid = None /\ psk = None /\ result = None /\ line = None /\ sta = None

NvsOpens   == nvs_ssid # None /\ Opens(nvs_blob, key)
ImageOpens == image.wrap # None /\ image.wrap.key = key

\* What holds on the way through a boot.
Stages ==
    /\ pc \in {"off", "init", "listen", "ids", "derive"} => Empty
    /\ pc # "off" => image # None
    /\ pc # "off" /\ image.tree.rx123 => pc \in {"init", "listen", "done"} /\ Empty
    /\ pc \in {"unwrap_nvs", "unwrap_baked", "save_ssid", "save_blob"} =>
           key # None /\ result = None /\ line = None /\ sta = None
    /\ pc \in {"unwrap_baked", "save_ssid", "save_blob"} => ~Opens(nvs_blob, key)
    /\ pc \in {"save_ssid", "save_blob"} =>
           ImageOpens /\ ssid = image.wrap.ssid /\ psk = image.wrap.psk
    /\ pc = "save_blob" => nvs_ssid = ssid
    /\ pc \in {"show", "bring_up"} => result # None /\ sta = None
    /\ pc = "show" => line = None

\* What the result of wifi_cred_load stands for.
Outcome ==
    /\ result # None => image # None
    /\ result = "OK" => NvsOpens \/ ImageOpens
    /\ result = "NOT_FOUND" => key # None /\ image.wrap = None /\ ~NvsOpens
    /\ result = "FAIL" =>
           key = None \/ (image.wrap # None /\ image.wrap.key # key /\ ~NvsOpens)
    /\ line # None => result # None /\ line = LineOf(result)
    /\ pc = "done" => (sta # None <=> result = "OK")

\* The buffers of a boot that loaded something.
BuffersMatch == \E w \in Wraps : w.key = key /\ ssid = w.ssid /\ psk = w.psk
Pair ==
    result = "OK" /\ pc \in {"show", "bring_up"} =>
        /\ ssid # None /\ psk # None
        /\ cut \/ BuffersMatch

\* NVS between two steps: no blob without an SSID, and both of one wrap.
NvsMatch == \E w \in Wraps : nvs_ssid = w.ssid /\ nvs_blob = Blob(w)
Store ==
    nvs_blob # None =>
        /\ nvs_ssid # None
        /\ cut \/ pc = "save_blob" \/ NvsMatch

IInv == TypeOK /\ Stages /\ Outcome /\ Pair /\ Store /\ RadioGetsPair

-----------------------------------------------------------------------------
\* The fields of an image and of a blob.
LEMMA Fields ==
    ASSUME TypeOK
    PROVE  /\ image # None => /\ image.tree \in Trees /\ image.tree.node \in Nodes
                              /\ image.tree.rx123 \in BOOLEAN
                              /\ image.wrap \in Wraps \cup {None}
           /\ image # None /\ image.wrap # None =>
                  /\ image.wrap \in Wraps /\ image.wrap.key \in Keys
                  /\ image.wrap.ssid \in Ssids /\ image.wrap.psk \in Psks
                  /\ Blob(image.wrap) \in {Blob(w) : w \in Wraps}
                  /\ Blob(image.wrap) # None
                  /\ Blob(image.wrap).key = image.wrap.key
                  /\ Opens(Blob(image.wrap), key) <=> image.wrap.key = key
           /\ nvs_blob # None => nvs_blob.key \in Keys /\ nvs_blob.psk \in Psks
           /\ key = None => ~Opens(nvs_blob, key)
           /\ None \notin Keys /\ None \notin Ssids /\ None \notin Psks /\ Cut \notin Psks
           /\ Cut \notin Ssids /\ None \notin Images /\ None \notin Wraps
           /\ None \notin {"OK", "NOT_FOUND", "FAIL", "SET (NOT SHOWN)", "NOT SET", "UNWRAP FAIL"}
<1> USE WifiCredAssumption
<1>1. image # None => /\ image.tree \in Trees /\ image.tree.node \in Nodes
                      /\ image.tree.rx123 \in BOOLEAN
                      /\ image.wrap \in Wraps \cup {None}
  BY DEF TypeOK, Images, Trees
<1>2. ASSUME NEW w \in Wraps
      PROVE  /\ w.key \in Keys /\ w.ssid \in Ssids /\ w.psk \in Psks
             /\ Blob(w) \in {Blob(v) : v \in Wraps}
             /\ Blob(w) # None /\ Blob(w).key = w.key /\ Blob(w).psk = w.psk
  <2>1. w.key \in Keys /\ w.ssid \in Ssids /\ w.psk \in Psks
    BY DEF Ssids, Psks
  <2>2. Blob(w) \in {Blob(v) : v \in Wraps}
    OBVIOUS
  <2>3. Blob(w) # None
    BY <2>2
  <2>4. Blob(w).key = w.key /\ Blob(w).psk = w.psk
    BY DEF Blob
  <2> QED BY <2>1, <2>2, <2>3, <2>4
<1>3. nvs_blob # None => nvs_blob.key \in Keys /\ nvs_blob.psk \in Psks
  BY <1>2 DEF TypeOK
<1>4. None \notin Keys /\ None \notin Ssids /\ None \notin Psks /\ Cut \notin Psks
      /\ Cut \notin Ssids /\ None \notin Images /\ None \notin Wraps
      /\ None \notin {"OK", "NOT_FOUND", "FAIL", "SET (NOT SHOWN)", "NOT SET", "UNWRAP FAIL"}
  OBVIOUS
<1>5. key = None => ~Opens(nvs_blob, key)
  BY <1>3, <1>4 DEF Opens
<1>6. image # None /\ image.wrap # None =>
          /\ image.wrap \in Wraps /\ image.wrap.key \in Keys
          /\ image.wrap.ssid \in Ssids /\ image.wrap.psk \in Psks
          /\ Blob(image.wrap) \in {Blob(w) : w \in Wraps}
          /\ Blob(image.wrap) # None
          /\ Blob(image.wrap).key = image.wrap.key
          /\ Opens(Blob(image.wrap), key) <=> image.wrap.key = key
  BY <1>1, <1>2 DEF Opens
<1> QED BY <1>1, <1>3, <1>4, <1>5, <1>6

LEMMA InitInv == Init => IInv
<1> SUFFICES ASSUME Init PROVE IInv
  OBVIOUS
<1> USE WifiCredAssumption
<1>1. TypeOK
  BY DEF Init, TypeOK
<1>2. Stages
  BY DEF Init, Stages, Empty
<1>3. Outcome
  BY DEF Init, Outcome
<1>4. Pair /\ Store /\ RadioGetsPair
  BY DEF Init, Pair, Store, RadioGetsPair
<1> QED BY <1>1, <1>2, <1>3, <1>4 DEF IInv

\* From outside: between two boots the buffers are empty, and a flash or an
\* erasure leaves NVS whole.
LEMMA OutsideKeeps ==
    ASSUME IInv, FlashImage \/ EraseFlash \/ PowerOn \/ PowerLost PROVE IInv'
<1> USE WifiCredAssumption DEF flash, nvs, ram
<1>1. CASE FlashImage
  <2>1. TypeOK'
    <3>1. cut' \in BOOLEAN /\ s_panel_ok' \in BOOLEAN
      BY <1>1 DEF FlashImage, IInv, TypeOK
    <3> QED BY <1>1, <3>1 DEF FlashImage, IInv, TypeOK
  <2>2. Stages'
    BY <1>1 DEF FlashImage, IInv, Stages, Empty
  <2>3. Outcome' /\ Pair'
    BY <1>1 DEF FlashImage, IInv, Stages, Empty, Outcome, Pair
  <2>4. Store'
    BY <1>1 DEF FlashImage, IInv, Store, NvsMatch
  <2>5. RadioGetsPair'
    BY <1>1 DEF FlashImage, IInv, Stages, Empty, RadioGetsPair
  <2> QED BY <2>1, <2>2, <2>3, <2>4, <2>5 DEF IInv
<1>2. CASE EraseFlash
  <2>1. TypeOK'
    <3>1. cut' \in BOOLEAN /\ s_panel_ok' \in BOOLEAN
      BY <1>2 DEF EraseFlash, IInv, TypeOK
    <3> QED BY <1>2, <3>1 DEF EraseFlash, IInv, TypeOK
  <2>2. Stages'
    BY <1>2 DEF EraseFlash, IInv, Stages, Empty
  <2>3. Outcome' /\ Pair'
    BY <1>2 DEF EraseFlash, IInv, Stages, Empty, Outcome, Pair
  <2>4. Store'
    BY <1>2 DEF EraseFlash, IInv, Store, NvsMatch
  <2>5. RadioGetsPair'
    BY <1>2 DEF EraseFlash, IInv, Stages, Empty, RadioGetsPair
  <2> QED BY <2>1, <2>2, <2>3, <2>4, <2>5 DEF IInv
<1>3. CASE PowerOn
  <2>1. TypeOK'
    <3>1. cut' \in BOOLEAN /\ s_panel_ok' \in BOOLEAN
      BY <1>3 DEF PowerOn, IInv, TypeOK
    <3> QED BY <1>3, <3>1 DEF PowerOn, IInv, TypeOK
  <2>2. Stages'
    BY <1>3 DEF PowerOn, IInv, Stages, Empty
  <2>3. Outcome' /\ Pair'
    BY <1>3 DEF PowerOn, IInv, Stages, Empty, Outcome, Pair
  <2>4. Store'
    BY <1>3 DEF PowerOn, IInv, Store, NvsMatch
  <2>5. RadioGetsPair'
    BY <1>3 DEF PowerOn, IInv, Stages, Empty, RadioGetsPair
  <2> QED BY <2>1, <2>2, <2>3, <2>4, <2>5 DEF IInv
<1>4. CASE PowerLost
  <2>1. TypeOK'
    <3>1. cut' \in BOOLEAN /\ s_panel_ok' \in BOOLEAN
      BY <1>4 DEF PowerLost, IInv, TypeOK
    <3> QED BY <1>4, <3>1 DEF PowerLost, IInv, TypeOK
  <2>2. Stages'
    BY <1>4 DEF PowerLost, IInv, Stages, Empty
  <2>3. Outcome' /\ Pair'
    BY <1>4 DEF PowerLost, IInv, Stages, Empty, Outcome, Pair
  <2>4. Store'
    BY <1>4 DEF PowerLost, IInv, Store, NvsMatch
  <2>5. RadioGetsPair'
    BY <1>4 DEF PowerLost, IInv, Stages, Empty, RadioGetsPair
  <2> QED BY <2>1, <2>2, <2>3, <2>4, <2>5 DEF IInv
<1> QED BY <1>1, <1>2, <1>3, <1>4

-----------------------------------------------------------------------------
\* One lemma per step of the boot, in the order they run.

LEMMA rr_rx123_run_Keeps == ASSUME IInv, rr_rx123_run PROVE IInv'
<1> USE DEF IInv, flash, nvs, ram
<1>1. /\ pc' \in {"listen", "done"} /\ pc = "init" /\ image.tree.rx123
      /\ UNCHANGED <<image, nvs_ssid, nvs_blob, s_panel_ok, key, ssid, psk, result, line, sta, cut>>
  BY DEF rr_rx123_run
<1>2. TypeOK'
  <2>1. cut' \in BOOLEAN /\ s_panel_ok' \in BOOLEAN
    BY <1>1 DEF TypeOK
  <2>2. /\ image' \in Images \cup {None} /\ nvs_ssid' \in Ssids \cup {None}
        /\ nvs_blob' \in {Blob(w) : w \in Wraps} \cup {None}
        /\ key' \in Keys \cup {None}
    BY <1>1 DEF TypeOK
  <2>3. /\ ssid' \in Ssids \cup {None} /\ psk' \in Psks \cup {None}
        /\ result' \in {"OK", "NOT_FOUND", "FAIL", None}
        /\ line' \in {"SET (NOT SHOWN)", "NOT SET", "UNWRAP FAIL", None}
        /\ sta' \in [ssid : Ssids \cup {Cut}, psk : Psks \cup {Cut}] \cup {None}
    BY <1>1 DEF TypeOK
  <2> QED BY <1>1, <2>1, <2>2, <2>3 DEF TypeOK
<1> USE WifiCredAssumption, Fields DEF ImageOpens, NvsOpens
<1>3. Stages'
  BY <1>1 DEF Stages, Empty
<1>4. Outcome'
  BY <1>1 DEF Stages, Empty, Outcome
<1>5. Pair' /\ Store' /\ RadioGetsPair'
  BY <1>1 DEF Pair, Store, NvsMatch, RadioGetsPair
<1> QED BY <1>2, <1>3, <1>4, <1>5

LEMMA NvsInit_Keeps == ASSUME IInv, NvsInit PROVE IInv'
<1> USE DEF IInv, flash, nvs, ram
<1>1. TypeOK'
  <2>1. cut' \in BOOLEAN /\ s_panel_ok' \in BOOLEAN
    BY DEF NvsInit, TypeOK
  <2> QED BY <2>1 DEF NvsInit, TypeOK, Stages
<1> USE WifiCredAssumption, Fields DEF ImageOpens, NvsOpens
<1>2. Stages'
  BY DEF NvsInit, Stages, Empty, Opens
<1>3. Outcome'
  BY DEF NvsInit, Stages, Empty, Outcome, Opens
<1>4. Pair'
  BY DEF NvsInit, Stages, Empty, Outcome, Pair, Store, NvsMatch, BuffersMatch
<1>5. Store'
  <2>1. CASE UNCHANGED <<nvs_ssid, nvs_blob, cut>>
    BY <2>1 DEF NvsInit, Store, NvsMatch
  <2>2. CASE nvs_blob' = None
    BY <2>2 DEF Store
  <2> QED BY <2>1, <2>2 DEF NvsInit
<1>6. RadioGetsPair'
  BY DEF NvsInit, Stages, Empty, RadioGetsPair
<1> QED BY <1>1, <1>2, <1>3, <1>4, <1>5, <1>6

LEMMA debug_ids_show_Keeps == ASSUME IInv, debug_ids_show PROVE IInv'
<1> USE DEF IInv, flash, nvs, ram
<1>1. TypeOK'
  <2>1. cut' \in BOOLEAN /\ s_panel_ok' \in BOOLEAN
    BY DEF debug_ids_show, TypeOK
  <2> QED BY <2>1 DEF debug_ids_show, TypeOK, Stages
<1> USE WifiCredAssumption, Fields DEF ImageOpens, NvsOpens
<1>2. Stages'
  BY DEF debug_ids_show, Stages, Empty, Opens
<1>3. Outcome'
  BY DEF debug_ids_show, Stages, Empty, Outcome, Opens
<1>4. Pair'
  BY DEF debug_ids_show, Stages, Empty, Outcome, Pair, Store, NvsMatch, BuffersMatch
<1>5. Store'
  BY DEF debug_ids_show, Stages, Store, NvsMatch
<1>6. RadioGetsPair'
  BY DEF debug_ids_show, Stages, Empty, RadioGetsPair
<1> QED BY <1>1, <1>2, <1>3, <1>4, <1>5, <1>6

LEMMA derive_wrap_key_Keeps == ASSUME IInv, derive_wrap_key PROVE IInv'
<1> USE WifiCredAssumption, Fields DEF IInv, flash, nvs, ram, ImageOpens, NvsOpens
<1>1. /\ pc = "derive"
      /\ UNCHANGED <<image, nvs_ssid, nvs_blob, s_panel_ok, ssid, psk, line, sta, cut>>
      /\ \/ key' \in Keys /\ pc' = "unwrap_nvs" /\ result' = result
         \/ key' = key /\ result' = "FAIL" /\ pc' = "show"
  <2>1. \A u \in UidReads : [node |-> image.tree.node, uid |-> u] \in Keys
    BY DEF derive_wrap_key, Stages, Keys
  <2> QED BY <2>1 DEF derive_wrap_key, Return
<1> HIDE DEF Keys
<1>2. TypeOK'
  <2>1. cut' \in BOOLEAN /\ s_panel_ok' \in BOOLEAN
    BY <1>1 DEF TypeOK
  <2>2. key' \in Keys \cup {None} /\ result' \in {"OK", "NOT_FOUND", "FAIL", None}
    BY <1>1 DEF TypeOK
  <2> QED BY <1>1, <2>1, <2>2 DEF TypeOK
<1>3. Stages'
  <2>1. Empty /\ image # None /\ ~image.tree.rx123
    BY <1>1 DEF Stages
  <2> QED BY <1>1, <2>1 DEF Stages, Empty
<1>4. Outcome'
  BY <1>1 DEF Stages, Empty, Outcome
<1>5. Pair' /\ Store' /\ RadioGetsPair'
  BY <1>1 DEF Stages, Empty, Pair, Store, NvsMatch, RadioGetsPair
<1> QED BY <1>2, <1>3, <1>4, <1>5

LEMMA unwrap_nvs_Keeps == ASSUME IInv, unwrap_nvs PROVE IInv'
<1> USE WifiCredAssumption, Fields DEF IInv, flash, nvs, ram, ImageOpens, NvsOpens
<1>1. /\ pc = "unwrap_nvs" /\ ssid' = nvs_ssid
      /\ UNCHANGED <<image, nvs_ssid, nvs_blob, s_panel_ok, key, line, sta, cut>>
      /\ \/ NvsOpens /\ psk' = nvs_blob.psk /\ result' = "OK" /\ pc' = "show"
         \/ ~NvsOpens /\ pc' = "unwrap_baked" /\ psk' = psk /\ result' = result
  BY DEF unwrap_nvs, Return
<1>2. TypeOK'
  <2>1. cut' \in BOOLEAN /\ s_panel_ok' \in BOOLEAN
    BY <1>1 DEF TypeOK
  <2>2. psk' \in Psks \cup {None} /\ ssid' \in Ssids \cup {None}
    BY <1>1 DEF TypeOK, Opens
  <2> QED BY <1>1, <2>1, <2>2 DEF TypeOK
<1>3. Stages'
  <2>1. key # None /\ result = None /\ line = None /\ sta = None /\ image # None /\ ~image.tree.rx123
    BY <1>1 DEF Stages
  <2>2. ~NvsOpens => ~Opens(nvs_blob, key)
    BY DEF Store, Opens
  <2> QED BY <1>1, <2>1, <2>2 DEF Stages
<1>4. Outcome'
  BY <1>1 DEF Stages, Outcome, Opens
<1>5. Pair'
  <2>1. CASE ~NvsOpens
    BY <1>1, <2>1 DEF Pair
  <2>2. CASE NvsOpens
    <3>1. cut \/ \E w \in Wraps : nvs_ssid = w.ssid /\ nvs_blob = Blob(w)
      BY <1>1, <2>2 DEF Store, NvsMatch, Opens
    <3>2. ASSUME NEW w \in Wraps, nvs_ssid = w.ssid, nvs_blob = Blob(w)
          PROVE  w.key = key' /\ ssid' = w.ssid /\ psk' = w.psk
      BY <1>1, <2>2, <3>2 DEF Opens, Blob
    <3>3. ssid' # None /\ psk' # None
      BY <1>1, <2>2 DEF Opens
    <3> QED BY <1>1, <3>1, <3>2, <3>3 DEF Pair, BuffersMatch
  <2> QED BY <2>1, <2>2
<1>6. Store' /\ RadioGetsPair'
  BY <1>1 DEF Stages, Store, NvsMatch, RadioGetsPair
<1> QED BY <1>2, <1>3, <1>4, <1>5, <1>6

LEMMA unwrap_baked_Keeps == ASSUME IInv, unwrap_baked PROVE IInv'
<1> USE WifiCredAssumption, Fields DEF IInv, flash, nvs, ram, ImageOpens, NvsOpens
<1>1. TypeOK'
  <2>1. cut' \in BOOLEAN /\ s_panel_ok' \in BOOLEAN
    BY DEF unwrap_baked, TypeOK
  <2> QED BY <2>1 DEF unwrap_baked, Return, TypeOK, Stages
<1>2. Stages'
  BY DEF unwrap_baked, Return, Stages, Empty, Opens
<1>3. Outcome'
  BY DEF unwrap_baked, Return, Stages, Empty, Outcome, Opens
<1>4. Pair'
  BY DEF unwrap_baked, Return, Stages, Empty, Outcome, Pair, Store, NvsMatch, BuffersMatch
<1>5. Store'
  BY DEF unwrap_baked, Return, Stages, Store, NvsMatch
<1>6. RadioGetsPair'
  BY DEF unwrap_baked, Return, Stages, Empty, RadioGetsPair
<1> QED BY <1>1, <1>2, <1>3, <1>4, <1>5, <1>6

LEMMA nvs_save_Keeps == ASSUME IInv, nvs_save PROVE IInv'
<1> USE WifiCredAssumption, Fields DEF IInv, flash, nvs, ram, ImageOpens, NvsOpens
<1>1. TypeOK'
  <2>1. cut' \in BOOLEAN /\ s_panel_ok' \in BOOLEAN
    BY DEF nvs_save, TypeOK
  <2> QED BY <2>1 DEF nvs_save, Return, TypeOK, Stages
<1>2. Stages'
  BY DEF nvs_save, Return, Stages, Empty, Opens
<1>3. Outcome'
  BY DEF nvs_save, Return, Stages, Empty, Outcome, Opens
<1>4. Pair'
  BY DEF nvs_save, Return, Stages, Empty, Outcome, Pair, Store, NvsMatch, BuffersMatch
<1>5. Store'
  BY DEF nvs_save, Return, Stages, Store, NvsMatch
<1>6. RadioGetsPair'
  BY DEF nvs_save, Return, Stages, Empty, RadioGetsPair
<1> QED BY <1>1, <1>2, <1>3, <1>4, <1>5, <1>6

LEMMA debug_ids_show_psk_status_Keeps == ASSUME IInv, debug_ids_show_psk_status PROVE IInv'
<1> USE DEF IInv, flash, nvs, ram
<1>1. TypeOK'
  <2>1. cut' \in BOOLEAN /\ s_panel_ok' \in BOOLEAN
    BY DEF debug_ids_show_psk_status, TypeOK
  <2> QED BY <2>1 DEF debug_ids_show_psk_status, LineOf, TypeOK, Stages
<1> USE WifiCredAssumption, Fields DEF ImageOpens, NvsOpens
<1>2. Stages'
  BY DEF debug_ids_show_psk_status, Stages, Empty, Opens
<1>3. Outcome'
  BY DEF debug_ids_show_psk_status, LineOf, Stages, Empty, Outcome, Opens
<1>4. Pair'
  BY DEF debug_ids_show_psk_status, Stages, Empty, Outcome, Pair, Store, NvsMatch, BuffersMatch
<1>5. Store'
  BY DEF debug_ids_show_psk_status, Stages, Store, NvsMatch
<1>6. RadioGetsPair'
  BY DEF debug_ids_show_psk_status, Stages, Empty, RadioGetsPair
<1> QED BY <1>1, <1>2, <1>3, <1>4, <1>5, <1>6

LEMMA bring_up_wifi_Keeps == ASSUME IInv, bring_up_wifi PROVE IInv'
<1> USE WifiCredAssumption, Fields DEF IInv, flash, nvs, ram, ImageOpens, NvsOpens
<1>1. /\ pc = "bring_up" /\ pc' = "done" /\ ssid' = None /\ psk' = None
      /\ UNCHANGED <<image, nvs_ssid, nvs_blob, s_panel_ok, key, result, line, cut>>
      /\ sta' = IF result = "OK" THEN [ssid |-> Field(ssid), psk |-> Field(psk)] ELSE None
  BY DEF bring_up_wifi, Stages, Pair
<1>2. result = "OK" =>
          /\ sta'.ssid = Field(ssid) /\ sta'.psk = Field(psk) /\ sta' # None
          /\ sta' \in [ssid : Ssids \cup {Cut}, psk : Psks \cup {Cut}]
  <2>1. ASSUME result = "OK"
        PROVE  Field(ssid) \in Ssids \cup {Cut} /\ Field(psk) \in Psks \cup {Cut}
    BY <1>1, <2>1 DEF TypeOK, Pair, Field
  <2> DEFINE r == [ssid |-> Field(ssid), psk |-> Field(psk)]
  <2>2. ASSUME result = "OK"
        PROVE  r \in [ssid : Ssids \cup {Cut}, psk : Psks \cup {Cut}] /\ r # None
    <3>1. r \in [ssid : Ssids \cup {Cut}, psk : Psks \cup {Cut}]
      BY <2>1, <2>2
    <3>2. None \notin [ssid : Ssids \cup {Cut}, psk : Psks \cup {Cut}]
      OBVIOUS
    <3> HIDE DEF r
    <3> QED BY <3>1, <3>2
  <2>3. r.ssid = Field(ssid) /\ r.psk = Field(psk)
    OBVIOUS
  <2> QED BY <1>1, <2>2, <2>3
<1>3. TypeOK'
  <2>1. cut' \in BOOLEAN /\ s_panel_ok' \in BOOLEAN
    BY <1>1 DEF TypeOK
  <2> QED BY <1>1, <1>2, <2>1 DEF TypeOK
<1>4. Stages'
  BY <1>1 DEF Stages, Empty
<1>5. Outcome'
  BY <1>1, <1>2 DEF Stages, Outcome
<1>6. Pair' /\ Store'
  BY <1>1 DEF Pair, Store, NvsMatch
<1>7. RadioGetsPair'
  BY <1>1, <1>2 DEF Stages, Pair, BuffersMatch, RadioGetsPair, Field
<1> QED BY <1>3, <1>4, <1>5, <1>6, <1>7

-----------------------------------------------------------------------------
LEMMA BootKeeps == ASSUME IInv, BootStep PROVE IInv'
BY rr_rx123_run_Keeps, NvsInit_Keeps, debug_ids_show_Keeps, derive_wrap_key_Keeps,
   unwrap_nvs_Keeps, unwrap_baked_Keeps, nvs_save_Keeps, debug_ids_show_psk_status_Keeps,
   bring_up_wifi_Keeps DEF BootStep

LEMMA Inductive == IInv /\ [Next]_vars => IInv'
<1> SUFFICES ASSUME IInv, [Next]_vars PROVE IInv'
  OBVIOUS
<1>1. CASE Next
  BY <1>1, BootKeeps, OutsideKeeps DEF Next
<1>2. CASE UNCHANGED vars
  <2> USE <1>2 DEF vars, flash, ram
  <2>1. TypeOK'
    <3>1. cut' \in BOOLEAN /\ s_panel_ok' \in BOOLEAN
      BY DEF IInv, TypeOK
    <3>2. /\ image' \in Images \cup {None} /\ nvs_ssid' \in Ssids \cup {None}
          /\ nvs_blob' \in {Blob(w) : w \in Wraps} \cup {None}
          /\ key' \in Keys \cup {None}
      BY DEF IInv, TypeOK
    <3>3. /\ ssid' \in Ssids \cup {None} /\ psk' \in Psks \cup {None}
          /\ result' \in {"OK", "NOT_FOUND", "FAIL", None}
          /\ line' \in {"SET (NOT SHOWN)", "NOT SET", "UNWRAP FAIL", None}
          /\ sta' \in [ssid : Ssids \cup {Cut}, psk : Psks \cup {Cut}] \cup {None}
      BY DEF IInv, TypeOK
    <3> QED BY <3>1, <3>2, <3>3 DEF IInv, TypeOK
  <2>2. Stages' /\ Outcome'
    BY DEF IInv, Stages, Empty, ImageOpens, NvsOpens, Opens, Outcome
  <2>3. Pair' /\ Store' /\ RadioGetsPair'
    BY DEF IInv, Pair, BuffersMatch, Store, NvsMatch, RadioGetsPair
  <2> QED BY <2>1, <2>2, <2>3 DEF IInv
<1> QED BY <1>1, <1>2

LEMMA Invariance == Spec => []IInv
BY InitInv, Inductive, PTL DEF Spec

\* Flash, buffers and the panel line stay in their ranges (wifi_cred.cpp).
THEOREM TypeCorrect == Spec => []TypeOK
<1>1. IInv => TypeOK
  BY DEF IInv
<1> QED BY <1>1, Invariance, PTL

\* The radio is given the SSID and the passphrase of one wrap that was made for
\* this board, unless a save was cut between its two writes (nvs_save).
THEOREM RadioPair == Spec => []RadioGetsPair
<1>1. IInv => RadioGetsPair
  BY DEF IInv
<1> QED BY <1>1, Invariance, PTL

\* wifi_cred_load succeeds exactly when NVS or the image holds a wrap that opens
\* under the key of this boot.
THEOREM LoadsExactly == Spec => []LoadsWhatOpens
<1>1. IInv => LoadsWhatOpens
  <2> SUFFICES ASSUME IInv, result # None PROVE LoadsWhatOpens
    BY DEF LoadsWhatOpens
  <2> USE Fields DEF IInv, TypeOK, Outcome, NvsOpens, ImageOpens
  <2>1. CASE result = "OK"
    BY <2>1 DEF LoadsWhatOpens
  <2>2. CASE result = "NOT_FOUND"
    BY <2>2 DEF LoadsWhatOpens
  <2>3. CASE result = "FAIL"
    BY <2>3 DEF LoadsWhatOpens
  <2> QED BY <2>1, <2>2, <2>3
<1> QED BY <1>1, Invariance, PTL

\* The WIFI PASSWORD line tells SET, NOT SET and UNWRAP FAIL apart as README.md
\* explains them (debug_ids_show_psk_status).
THEOREM LineTellsCause == Spec => []PanelTellsCause
<1>1. IInv => PanelTellsCause
  <2> SUFFICES ASSUME IInv, pc = "done", line # None PROVE PanelTellsCause
    BY DEF PanelTellsCause
  <2>1. line = LineOf(result) /\ result \in {"OK", "NOT_FOUND", "FAIL"}
        /\ (sta # None <=> result = "OK")
    BY DEF IInv, TypeOK, Outcome
  <2>2. /\ line = "SET (NOT SHOWN)" <=> result = "OK"
        /\ line = "UNWRAP FAIL" <=> result = "FAIL"
        /\ line = "NOT SET" <=> result = "NOT_FOUND"
    BY <2>1 DEF LineOf
  <2> QED BY <2>1, <2>2 DEF IInv, Outcome, NvsOpens, PanelTellsCause
<1> QED BY <1>1, Invariance, PTL

\* Credentials in NVS that open are not overwritten by those of the image
\* (wifi_cred_load tries NVS first).
THEOREM GoodNvsIsKept == Spec => GoodNvsKept
<1> DEFINE Kept == nvs' # nvs /\ pc \in {"save_ssid", "save_blob"} =>
                     nvs_ssid = None \/ ~Opens(nvs_blob, key)
<1>1. IInv => [Kept]_vars
  BY DEF IInv, Stages
<1> QED BY <1>1, Invariance, PTL DEF GoodNvsKept

-----------------------------------------------------------------------------
(* The host tools beside the board.                                        *)

HostTypes ==
    /\ tree \in Trees
    /\ ids \in Keys \cup {None}
    /\ wrap_inc \in Wraps \cup {None}
    /\ configured \in {"none", "with", "without"}
    /\ object \in Wraps \cup {None}
    /\ newer \in BOOLEAN
    /\ announced \in {"with", "without"}
    /\ provisioned \in BOOLEAN

\* An object that Ninja would keep was compiled with the wrap file of now.
UpToDate == object # None /\ ~newer /\ wrap_inc # None => object = wrap_inc

\* Until somebody provisions there is no wrap anywhere: not on the host, not in
\* the image, not in NVS, and no boot has found one.
Clean ==
    ~provisioned =>
        /\ wrap_inc = None
        /\ image # None => image.wrap = None
        /\ nvs_ssid = None /\ nvs_blob = None
        /\ pc \notin {"save_ssid", "save_blob"}
        /\ result # "OK" /\ sta = None

PInv == IInv /\ HostTypes /\ UpToDate /\ Clean

-----------------------------------------------------------------------------
LEMMA ProvInitInv == ProvInit => PInv
<1> SUFFICES ASSUME ProvInit PROVE PInv
  OBVIOUS
<1>1. IInv
  BY InitInv DEF ProvInit
<1>2. HostTypes
  BY DEF ProvInit, HostTypes
<1>3. Clean
  BY WifiCredAssumption DEF ProvInit, Init, Clean
<1>4. UpToDate
  BY DEF ProvInit, UpToDate
<1> QED BY <1>1, <1>2, <1>3, <1>4 DEF PInv

\* The board sees of a build at most a new image, and what Ninja links is the
\* wrap file of now or none.
LEMMA BuildFlashes ==
    ASSUME HostTypes, UpToDate, NEW flashing \in BOOLEAN, build_idf5(flashing)
    PROVE  /\ FlashImage \/ UNCHANGED vars
           /\ HostTypes' /\ UpToDate'
           /\ UNCHANGED <<nvs, ram, cut, wrap_inc, provisioned>>
           /\ image' # image => image' # None /\ image'.wrap \in {None, wrap_inc}
<1>1. /\ pc = "off" /\ object' \in {None, wrap_inc} /\ newer' = FALSE
      /\ configured' \in {"none", "with", "without"}
      /\ UNCHANGED <<nvs, ram, cut, tree, ids, wrap_inc, provisioned>>
  BY DEF build_idf5, Object, Configured, HostTypes, UpToDate
<1>2. object' \in Wraps \cup {None} /\ UpToDate'
  BY <1>1 DEF HostTypes, UpToDate
<1>3. [tree |-> tree, wrap |-> object'] \in Images
  BY <1>2 DEF HostTypes, Images
<1>4. CASE flashing
  <2>1. image' = [tree |-> tree, wrap |-> object'] /\ announced' \in {"with", "without"}
    BY <1>4 DEF build_idf5
  <2>2. FlashImage
    BY <1>1, <1>3, <2>1 DEF FlashImage
  <2>3. HostTypes'
    BY <1>1, <1>2, <2>1 DEF HostTypes
  <2>4. image'.wrap = object' /\ image' # None
    BY <1>3, <2>1, WifiCredAssumption
  <2> QED BY <1>1, <1>2, <2>2, <2>3, <2>4
<1>5. CASE ~flashing
  <2>1. UNCHANGED <<image, announced>>
    BY <1>5 DEF build_idf5
  <2>2. HostTypes'
    BY <1>1, <1>2, <2>1 DEF HostTypes
  <2> QED BY <1>1, <1>2, <2>1, <2>2 DEF vars, flash, nvs, ram
<1> QED BY <1>4, <1>5

\* A step of the tools is a step of the board's specification, or none of the board.
LEMMA StepRefines == ASSUME HostTypes, UpToDate, [ProvNext]_prov_vars PROVE [Next]_vars
<1>1. CASE EditTree \/ DeleteWrap \/ provision_wifi_build
  BY <1>1 DEF EditTree, DeleteWrap, provision_wifi_build
<1>2. CASE collect_hw_ids
  BY <1>2 DEF collect_hw_ids, Next, BootStep
<1>3. ASSUME NEW flashing \in BOOLEAN, build_idf5(flashing) PROVE [Next]_vars
  BY <1>3, BuildFlashes DEF Next
<1>4. CASE erase_all_flash
  BY <1>4 DEF erase_all_flash, Next
<1>5. CASE BoardStep
  BY <1>5 DEF BoardStep, Next
<1>6. CASE UNCHANGED prov_vars
  BY <1>6 DEF prov_vars
<1> QED BY <1>1, <1>2, <1>3, <1>4, <1>5, <1>6 DEF ProvNext, HostStep

LEMMA HostTypesKept ==
    ASSUME IInv, HostTypes, UpToDate, [ProvNext]_prov_vars PROVE HostTypes'
<1>1. CASE EditTree
  BY <1>1 DEF EditTree, HostTypes
<1>2. CASE DeleteWrap
  BY <1>2 DEF DeleteWrap, HostTypes
<1>3. CASE provision_wifi_build
  BY <1>3 DEF provision_wifi_build, HostTypes
<1>4. CASE collect_hw_ids
  <2>1. image.tree.node \in Nodes
    BY <1>4, Fields DEF collect_hw_ids, debug_ids_show, IInv, Stages
  <2>2. ids' \in Keys
    <3>1. PICK uid_ok \in UidReads : ids' = [node |-> image.tree.node, uid |-> uid_ok]
      BY <1>4 DEF collect_hw_ids, IdsPrinted
    <3>2. uid_ok \in BOOLEAN
      BY WifiCredAssumption
    <3> QED BY <2>1, <3>1, <3>2 DEF Keys
  <2> QED BY <1>4, <2>2 DEF collect_hw_ids, HostTypes
<1>5. ASSUME NEW flashing \in BOOLEAN, build_idf5(flashing) PROVE HostTypes'
  BY <1>5, BuildFlashes
<1>6. CASE erase_all_flash
  BY <1>6 DEF erase_all_flash, HostTypes
<1>7. CASE BoardStep \/ UNCHANGED prov_vars
  BY <1>7 DEF BoardStep, prov_vars, host, HostTypes
<1> QED BY <1>1, <1>2, <1>3, <1>4, <1>5, <1>6, <1>7 DEF ProvNext, HostStep

\* A new wrap file makes the object old; nothing else writes either but a build.
LEMMA UpToDateKept == ASSUME HostTypes, UpToDate, [ProvNext]_prov_vars PROVE UpToDate'
<1>1. CASE EditTree \/ DeleteWrap \/ provision_wifi_build
  BY <1>1 DEF EditTree, DeleteWrap, provision_wifi_build, UpToDate
<1>2. CASE collect_hw_ids \/ erase_all_flash
  BY <1>2 DEF collect_hw_ids, erase_all_flash, UpToDate
<1>3. ASSUME NEW flashing \in BOOLEAN, build_idf5(flashing) PROVE UpToDate'
  BY <1>3, BuildFlashes
<1>4. CASE BoardStep \/ UNCHANGED prov_vars
  BY <1>4 DEF BoardStep, prov_vars, host, UpToDate
<1> QED BY <1>1, <1>2, <1>3, <1>4 DEF ProvNext, HostStep

\* A boot that finds no wrap anywhere loads nothing and saves nothing.
LEMMA BoardStaysClean ==
    ASSUME IInv, Clean, PowerOn \/ PowerLost \/ BootStep, UNCHANGED host
    PROVE  Clean'
<1> SUFFICES ASSUME ~provisioned PROVE Clean'
  BY DEF Clean, host
<1> USE WifiCredAssumption DEF Clean, host, flash, nvs, ram, Return
<1>1. image # None \/ pc = "off"
  BY DEF IInv, Stages
<1>2. CASE PowerOn
  BY <1>2 DEF PowerOn
<1>3. CASE PowerLost
  BY <1>3 DEF PowerLost
<1>4. CASE rr_rx123_run
  BY <1>4 DEF rr_rx123_run
<1>5. CASE NvsInit
  BY <1>5 DEF NvsInit
<1>6. CASE debug_ids_show
  BY <1>6 DEF debug_ids_show
<1>7. CASE derive_wrap_key
  BY <1>7 DEF derive_wrap_key
<1>8. CASE unwrap_nvs
  BY <1>8 DEF unwrap_nvs
<1>9. CASE unwrap_baked
  BY <1>1, <1>9 DEF unwrap_baked
<1>10. CASE nvs_save
  BY <1>10 DEF nvs_save
<1>11. CASE debug_ids_show_psk_status
  BY <1>11 DEF debug_ids_show_psk_status
<1>12. CASE bring_up_wifi
  BY <1>12 DEF bring_up_wifi
<1> QED BY <1>2, <1>3, <1>4, <1>5, <1>6, <1>7, <1>8, <1>9, <1>10, <1>11, <1>12 DEF BootStep

LEMMA CleanKept ==
    ASSUME IInv, HostTypes, UpToDate, Clean, [ProvNext]_prov_vars PROVE Clean'
<1>1. CASE EditTree \/ DeleteWrap \/ provision_wifi_build
  BY <1>1 DEF EditTree, DeleteWrap, provision_wifi_build, vars, flash, ram, Clean
<1>2. CASE collect_hw_ids
  BY <1>2, WifiCredAssumption DEF collect_hw_ids, debug_ids_show, flash, Clean
<1>3. ASSUME NEW flashing \in BOOLEAN, build_idf5(flashing) PROVE Clean'
  BY <1>3, BuildFlashes DEF nvs, ram, Clean
<1>4. CASE erase_all_flash
  <2>1. /\ image' = None /\ nvs_ssid' = None /\ nvs_blob' = None /\ pc = "off"
        /\ UNCHANGED ram
        /\ (wrap_inc' = None /\ provisioned' = FALSE) \/ UNCHANGED <<wrap_inc, provisioned>>
    BY <1>4 DEF erase_all_flash, EraseFlash
  <2>2. result = None /\ sta = None
    BY <2>1 DEF IInv, Stages, Empty
  <2> QED BY <2>1, <2>2, WifiCredAssumption DEF ram, Clean
<1>5. CASE BoardStep
  BY <1>5, BoardStaysClean DEF BoardStep
<1>6. CASE UNCHANGED prov_vars
  BY <1>6 DEF prov_vars, vars, flash, ram, host, Clean
<1> QED BY <1>1, <1>2, <1>3, <1>4, <1>5, <1>6 DEF ProvNext, HostStep

LEMMA ProvInductive == PInv /\ [ProvNext]_prov_vars => PInv'
BY StepRefines, HostTypesKept, UpToDateKept, CleanKept, Inductive DEF PInv

LEMMA ProvInvariance == ProvSpec => []PInv
BY ProvInitInv, ProvInductive, PTL DEF ProvSpec

-----------------------------------------------------------------------------
\* The tools drive the board only through flashes, erasures and boots of
\* WifiCred: the host and the board implement the specification of the board.
THEOREM ImplementsBoard == ProvSpec => Spec
<1>1. ProvInit => Init
  BY DEF ProvInit
<1>2. PInv /\ [ProvNext]_prov_vars => [Next]_vars
  BY StepRefines DEF PInv
<1> QED BY <1>1, <1>2, ProvInvariance, PTL DEF ProvSpec, Spec

\* Ids, wrap and build directory stay in their ranges, and the wrap is one of
\* the host's (collect_hw_ids.py, wifi_wrap.py).
THEOREM ProvTypeCorrect == ProvSpec => []ProvTypeOK
<1>1. PInv => ProvTypeOK
  BY DEF PInv, IInv, HostTypes, ProvTypeOK
<1> QED BY <1>1, ProvInvariance, PTL

\* What the board promises holds of every board the tools provision
\* (wifi_cred_load, debug_ids_show_psk_status, wifi_sta_start).
THEOREM BoardPromises ==
    ProvSpec => [](RadioGetsPair /\ LoadsWhatOpens /\ PanelTellsCause) /\ GoodNvsKept
BY ImplementsBoard, RadioPair, LoadsExactly, LineTellsCause, GoodNvsIsKept, PTL

\* After a complete erase_all_flash.sh no boot finds credentials, until somebody
\* runs provision_wifi_build again.
THEOREM ErasedStaysErased == ProvSpec => []ErasedForGood
<1>1. PInv => ErasedForGood
  BY DEF PInv, Clean, ErasedForGood
<1> QED BY <1>1, ProvInvariance, PTL

\* An image holds the wrap that is on the host when it is flashed, or none: an
\* object that Ninja keeps was compiled with the wrap file of now
\* (OBJECT_DEPENDS of main/CMakeLists.txt).
THEOREM NeverStale == ProvSpec => NoStaleWrap
<1> DEFINE Fresh == image' # image /\ image' # None => image'.wrap \in {None, wrap_inc}
<1>1. PInv /\ [ProvNext]_prov_vars => [Fresh]_prov_vars
  <2> SUFFICES ASSUME PInv, ProvNext, image' # image, image' # None
               PROVE  image'.wrap \in {None, wrap_inc}
    OBVIOUS
  <2>1. ~(EditTree \/ DeleteWrap \/ provision_wifi_build)
    BY DEF EditTree, DeleteWrap, provision_wifi_build, vars, flash
  <2>2. ~collect_hw_ids /\ ~erase_all_flash
    BY DEF collect_hw_ids, debug_ids_show, flash, erase_all_flash, EraseFlash
  <2>3. ~BoardStep
    <3>1. ~PowerOn /\ ~PowerLost
      BY DEF PowerOn, PowerLost, flash
    <3>2. ~BootStep
      BY DEF BootStep, rr_rx123_run, NvsInit, debug_ids_show, derive_wrap_key, unwrap_nvs,
             unwrap_baked, nvs_save, debug_ids_show_psk_status, bring_up_wifi, flash
    <3> QED BY <3>1, <3>2 DEF BoardStep
  <2>4. PICK flashing \in BOOLEAN : build_idf5(flashing)
    BY <2>1, <2>2, <2>3 DEF ProvNext, HostStep
  <2> QED BY <2>4, BuildFlashes DEF PInv
<1> QED BY <1>1, ProvInvariance, PTL DEF ProvSpec, NoStaleWrap
=============================================================================
