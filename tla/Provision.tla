----------------------------- MODULE Provision ------------------------------
(***************************************************************************)
(* The host tools of utils/ beside the board of WifiCred: the ids are read *)
(* from the serial line (collect_hw_ids.py), the credentials are wrapped   *)
(* for them (wifi_wrap.py, called by provision_wifi_build), the firmware   *)
(* is configured, built and flashed (build_idf5.sh, idf.py), and flash and *)
(* wrap are erased together (erase_all_flash.sh).  CMake asks whether the  *)
(* wrap file exists when it runs, and it runs again only after one of its  *)
(* inputs changed; the wrap file is not one of them.  Ninja keeps the      *)
(* object of wifi_cred.cpp from one build to the next: it compiles again   *)
(* only when the definitions changed or the wrap file is newer, and fails  *)
(* when the file is gone.                                                  *)
(***************************************************************************)
EXTENDS WifiCred

VARIABLES tree,         \* the sources and sdkconfig: node number, RR_RX123_TEST
          ids,          \* local/hw_ids.env: what the key is made from, or None
          wrap_inc,     \* main/wifi_psk_wrap.inc, or None
          configured,   \* CMake's last test: "with" or "without" the wrap, or
                        \* "none" when it is due to run
          object,       \* the wrap compiled into the build directory, or None
          newer,        \* the wrap file was written after that object
          announced,    \* what build_idf5.sh said of the image that was flashed
          provisioned   \* history: provisioned since the last complete erasure

host      == <<tree, ids, wrap_inc, configured, object, newer, announced, provisioned>>
prov_vars == <<vars, host>>

ProvInit ==
    /\ Init
    /\ tree \in Trees /\ ids = None /\ wrap_inc = None
    /\ configured = "none" /\ object = None /\ newer = FALSE
    /\ announced = "without" /\ provisioned = FALSE

-----------------------------------------------------------------------------
\* menuconfig, an edit of a CMakeLists.txt, a commit or another branch (external).
EditTree ==
    /\ tree' \in Trees /\ configured' = "none"
    /\ UNCHANGED <<vars, ids, wrap_inc, object, newer, announced, provisioned>>

\* BUILD.md, "you can delete main/wifi_psk_wrap.inc" (external).
DeleteWrap ==
    /\ wrap_inc' = None
    /\ UNCHANGED <<vars, tree, ids, configured, object, newer, announced, provisioned>>

\* Mutant of collect_hw_ids: an id that is not on the serial line is left out.
CollectPartial ==
    /\ debug_ids_show
    /\ ids' = [node |-> image.tree.node]
    /\ UNCHANGED <<tree, wrap_inc, configured, object, newer, announced, provisioned>>

\* The collector resets the board and listens to the boot that follows.  Unless
\* all three ids arrive, it writes nothing.
collect_hw_ids ==
    /\ debug_ids_show
    /\ \E uid_ok \in UidReads : ids' = IdsPrinted(uid_ok)
    /\ UNCHANGED <<tree, wrap_inc, configured, object, newer, announced, provisioned>>

\* The wrap is written before the build starts; on Windows it does not start.
provision_wifi_build ==
    /\ ids # None
    /\ \E w \in Wraps : w.key = ids /\ wrap_inc' = w
    /\ newer' = TRUE /\ provisioned' = TRUE
    /\ UNCHANGED <<vars, tree, ids, configured, object, announced>>

\* CMake runs if it is due, and tests for the wrap file.
Configured ==
    IF configured # "none" THEN configured
    ELSE IF wrap_inc # None THEN "with" ELSE "without"

\* Mutant of Object: no OBJECT_DEPENDS, the object is not compiled for a new wrap.
ObjectStale == IF object # None THEN object ELSE wrap_inc

\* What Ninja links with WIFI_WRAP_BLOB_PRESENT: the object of an earlier build,
\* unless that one had no wrap (the definitions differ) or OBJECT_DEPENDS finds
\* the wrap file newer.
Object == IF object # None /\ ~newer THEN object ELSE wrap_inc

\* Nothing is flashed when the build fails: the tree was configured with a wrap
\* that is gone.
build_idf5(flashing) ==
    /\ pc = "off"
    /\ Configured = "with" => wrap_inc # None
    /\ configured' = Configured
    /\ object' = IF Configured = "with" THEN Object ELSE None
    /\ newer' = FALSE
    /\ IF flashing
       THEN /\ image' = [tree |-> tree, wrap |-> object']
            /\ announced' = IF wrap_inc # None THEN "with" ELSE "without"
       ELSE UNCHANGED <<image, announced>>
    /\ UNCHANGED <<nvs, ram, cut, tree, ids, wrap_inc, provisioned>>

\* Mutant of erase_all_flash: the wrap file on the host is forgotten.
EraseKeepsWrap ==
    /\ EraseFlash
    /\ provisioned' = FALSE /\ UNCHANGED wrap_inc
    /\ UNCHANGED <<tree, ids, configured, object, newer, announced>>

\* The chip first, then the files.  The script stops where a command fails: the
\* chip may be blank and the wrap still there.
erase_all_flash ==
    /\ EraseFlash
    /\ \/ wrap_inc' = None /\ provisioned' = FALSE
       \/ UNCHANGED <<wrap_inc, provisioned>>
    /\ UNCHANGED <<tree, ids, configured, object, newer, announced>>

HostStep ==
    \/ EditTree \/ DeleteWrap \/ collect_hw_ids \/ provision_wifi_build
    \/ \E flashing \in BOOLEAN : build_idf5(flashing)
    \/ erase_all_flash

BoardStep == (PowerOn \/ PowerLost \/ BootStep) /\ UNCHANGED host

ProvNext == HostStep \/ BoardStep
ProvSpec == ProvInit /\ [][ProvNext]_prov_vars

-----------------------------------------------------------------------------
ProvTypeOK ==
    /\ TypeOK
    /\ tree \in Trees
    /\ ids \in Keys \cup {None}
    /\ wrap_inc \in Wraps \cup {None}
    /\ configured \in {"none", "with", "without"}
    /\ object \in Wraps \cup {None}
    /\ newer \in BOOLEAN
    /\ announced \in {"with", "without"}
    /\ provisioned \in BOOLEAN

\* An image that is flashed holds the wrap that is on the host now, or none: no
\* object of an earlier provisioning is linked, however the tree was edited,
\* configured and provisioned in between.
NoStaleWrap ==
    [][image' # image /\ image' # None => image'.wrap \in {None, wrap_inc}]_prov_vars

\* erase_all_flash.sh, "wipe chip + host wrap": once it ran to its end, no board
\* gets onto Wi-Fi until somebody provisions again, whatever is rebuilt and
\* flashed from the build directory it left behind.
ErasedForGood == ~provisioned => sta = None /\ result # "OK"

\* build_idf5.sh, "Building with host-encrypted wrap blob": an image that was
\* announced so holds a wrap.
AnnouncedIsBaked == announced = "with" /\ image # None => image.wrap # None
=============================================================================
