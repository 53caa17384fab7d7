----------------------------- MODULE WebPortal -----------------------------
(***************************************************************************)
(* The configuration portal (main/app/web_portal.c) and the certificate   *)
(* store behind it (main/app/cert_store.c).                                *)
(*                                                                         *)
(* One server task runs the handlers one after another, so a request is a *)
(* single step here, except an upload, whose calls on the file system the *)
(* power, the restart timer and a factory reset may come between.  Of the *)
(* form, only the TLS mode is kept: it alone looks at the files.  The page *)
(* itself, the clock and the update requests are left to other modules;   *)
(* how a save is stored is ConfigStore.                                    *)
(*                                                                         *)
(* A definition named after the one that follows it is a broken form of it.*)
(***************************************************************************)
EXTENDS Integers, Sequences

CONSTANTS
    SlotOrder,      \* certificate slots, in the order they are erased
    Editions,       \* versions of a certificate that get uploaded
    MaxFaults,      \* bound: calls that fail
    MaxCuts         \* bound: losses of power

ASSUME WebPortalAssumption == SlotOrder \in Seq(STRING) /\ {MaxFaults, MaxCuts} \subseteq Nat

VARIABLES
    files, temp,    \* slot files and CERT_STORE_TMP_PATH
    mounted,        \* s_mounted
    upload,         \* of the server task: what cert_store_write() does next
    erase,          \* position of cert_store_erase_all(), 0 when none runs
    running, dns, session,  \* s_httpd, s_dns_running, s_session_token
    timer,          \* s_reboot_timer
    ram, kept,      \* TLS settings in RAM and in NVS
    portalFaults, cuts

storeVars == <<files, temp, mounted>>
serverVars == <<running, dns, session>>
settings == <<ram, kept>>
portalVars == <<storeVars, upload, erase, serverVars, timer, settings, portalFaults, cuts>>

CertSlots == {SlotOrder[n] : n \in 1..Len(SlotOrder)}
None == [of |-> "none", edition |-> 0]
Half == [of |-> "half", edition |-> 0]
Pem(s, e) == [of |-> s, edition |-> e]
Contents == {None, Half} \cup {Pem(s, e) : s \in CertSlots, e \in Editions}
Modes == {"off", "ca", "mutual"}
NoUpload == [do |-> "none", pem |-> None]
Default == [mode |-> "off", caPath |-> FALSE]

PortalTypeOK ==
    /\ files \in [CertSlots -> Contents] /\ temp \in Contents
    /\ upload \in [do : {"none", "open", "fill", "unlink", "rename"}, pem : Contents]
    /\ erase \in 0..Len(SlotOrder) + 1
    /\ {mounted, running, dns, session} \subseteq BOOLEAN
    /\ timer \in {"none", "idle", "armed"}
    /\ {ram, kept} \subseteq [mode : Modes, caPath : BOOLEAN]
    /\ portalFaults \in 0..MaxFaults /\ cuts \in 0..MaxCuts

Fails == portalFaults < MaxFaults /\ portalFaults' = portalFaults + 1
Works == UNCHANGED portalFaults

\* cert_store_init(): what cannot be mounted is formatted.
Mount ==
    \/ Works /\ mounted' = TRUE /\ UNCHANGED <<files, temp>>
    \/ Fails /\ mounted' = TRUE /\ files' = [s \in CertSlots |-> None] /\ temp' = None
    \/ Fails /\ mounted' = FALSE /\ UNCHANGED <<files, temp>>

PortalInit ==
    /\ files = [s \in CertSlots |-> None] /\ temp = None /\ mounted = TRUE
    /\ upload = NoUpload /\ erase = 0
    /\ running = FALSE /\ dns = FALSE /\ session = FALSE
    /\ timer = "none" /\ ram = Default /\ kept = Default
    /\ portalFaults = 0 /\ cuts = 0

Boot ==
    /\ Mount
    /\ upload' = NoUpload /\ erase' = 0
    /\ running' = FALSE /\ dns' = FALSE /\ session' = FALSE /\ timer' = "none"
    /\ ram' = kept /\ UNCHANGED kept

PowerCut == cuts < MaxCuts /\ cuts' = cuts + 1 /\ Boot

\* reboot_timer_cb(), 900 ms after the page went out.
RebootTimer == timer = "armed" /\ Boot /\ UNCHANGED cuts
-----------------------------------------------------------------------------
(* The server, started and stopped by the network manager.                 *)

Beside == UNCHANGED <<storeVars, upload, erase, settings, timer, cuts>>

\* web_portal_start(): the portal does without the captive DNS, not without httpd.
Start ==
    /\ ~running /\ session' = FALSE
    /\ \/ running' = TRUE /\ dns' = TRUE /\ Works
       \/ running' = TRUE /\ dns' = FALSE /\ Fails
       \/ running' = FALSE /\ dns' = FALSE /\ Fails
    /\ Beside

\* httpd_stop() lets the handler that runs finish.
Stop ==
    /\ running /\ upload = NoUpload
    /\ running' = FALSE /\ dns' = FALSE /\ session' = FALSE
    /\ Works /\ Beside

Login ==
    /\ running /\ upload = NoUpload /\ session' = TRUE
    /\ Works /\ Beside /\ UNCHANGED <<running, dns>>

\* A request that came in with a session while no handler runs.
Request == running /\ session /\ upload = NoUpload
-----------------------------------------------------------------------------
(* cert_store_write(), one call on the file system at a time.              *)

Around == UNCHANGED <<mounted, erase, serverVars, settings, timer, cuts>>
Then(do) == upload' = [upload EXCEPT !.do = do]
GiveUp == upload' = NoUpload

\* A body that is no PEM, is cut short or too long, or meets no store changes nothing.
Upload(s, e) ==
    /\ Request /\ mounted
    /\ upload' = [do |-> "open", pem |-> Pem(s, e)]
    /\ Works /\ UNCHANGED <<files, temp>> /\ Around

Open ==
    /\ upload.do = "open"
    /\ \/ temp' = Half /\ Then("fill") /\ Works
       \/ Fails /\ GiveUp /\ UNCHANGED temp
    /\ UNCHANGED files /\ Around

FillUnchecked ==
    /\ upload.do = "fill" /\ Then("unlink")
    /\ (temp' = upload.pem /\ Works) \/ (temp' = Half /\ Fails)
    /\ UNCHANGED files /\ Around

\* fwrite() and fclose(); "a full partition typically fails there".
Fill ==
    /\ upload.do = "fill"
    /\ \/ temp' = upload.pem /\ Then("unlink") /\ Works
       \/ temp' = None /\ GiveUp /\ Fails
    /\ UNCHANGED files /\ Around

\* unlink(path); its result is not asked for.
Unlink ==
    /\ upload.do = "unlink" /\ Then("rename")
    /\ \/ files' = [files EXCEPT ![upload.pem.of] = None] /\ Works
       \/ UNCHANGED files /\ Fails
    /\ UNCHANGED temp /\ Around

\* "FAT rename does not replace an existing target."
Rename ==
    /\ upload.do = "rename" /\ GiveUp /\ temp' = None
    /\ LET s == upload.pem.of IN
       \/ files[s] = None /\ files' = [files EXCEPT ![s] = temp] /\ Works
       \/ files[s] # None /\ UNCHANGED files /\ Works
       \/ files[s] = None /\ UNCHANGED files /\ Fails
    /\ Around

\* cert_delete_post_handler(); a slot that is empty already is deleted as well.
Delete(s) ==
    /\ Request /\ mounted
    /\ files' = [files EXCEPT ![s] = None]
    /\ Works /\ UNCHANGED <<temp, upload>> /\ Around
-----------------------------------------------------------------------------
(* The settings, and the restart that applies them.                        *)

\* profile_bind_cert_paths(): without an uploaded CA, the built-in bundle is meant.
Bound(mode) ==
    [mode |-> mode, caPath |-> mode = "mutual" \/ (mode = "ca" /\ mounted /\ files["ca"] # None)]

\* schedule_reboot(): a running timer is stopped first.
Arm ==
    \/ timer' = "armed" /\ Works
    \/ timer' = (IF timer = "none" THEN "none" ELSE "idle") /\ Fails

\* save_all_post_handler(); when saving fails, the settings stay in RAM.
SaveAll ==
    /\ Request
    /\ \E new \in {ram} \cup {Bound(m) : m \in Modes} :
        /\ ram' = new
        /\ \/ kept' = new /\ Arm
           \/ UNCHANGED <<kept, timer>> /\ Fails
    /\ UNCHANGED <<storeVars, upload, erase, serverVars, cuts>>

\* reboot_post_handler(): saves what is in RAM, or does not restart.
RebootPost ==
    /\ Request
    /\ \/ kept' = ram /\ Arm
       \/ UNCHANGED <<kept, timer>> /\ Fails
    /\ UNCHANGED <<storeVars, upload, erase, serverVars, ram, cuts>>

\* config_manager_factory_reset(), from the console: settings, ...
ResetSettings ==
    /\ erase = 0 /\ kept' = Default /\ erase' = IF mounted THEN 1 ELSE Len(SlotOrder) + 1
    /\ Works /\ UNCHANGED <<storeVars, upload, serverVars, ram, timer, cuts>>

\* ... certificates one by one, whatever fails, ...
EraseNext ==
    /\ erase \in 1..Len(SlotOrder) /\ erase' = erase + 1
    /\ \/ files' = [files EXCEPT ![SlotOrder[erase]] = None] /\ Works
       \/ UNCHANGED files /\ Fails
    /\ UNCHANGED <<temp, mounted, upload, serverVars, settings, timer, cuts>>

\* ... and the defaults into RAM.
ReloadDefaults ==
    /\ erase = Len(SlotOrder) + 1 /\ erase' = 0 /\ ram' = kept
    /\ Works /\ UNCHANGED <<storeVars, upload, serverVars, kept, timer, cuts>>

PortalNext ==
    \/ PowerCut \/ RebootTimer \/ Start \/ Stop \/ Login
    \/ \E s \in CertSlots : Delete(s) \/ \E e \in Editions : Upload(s, e)
    \/ Open \/ Fill \/ Unlink \/ Rename
    \/ SaveAll \/ RebootPost \/ ResetSettings \/ EraseNext \/ ReloadDefaults

PortalSpec == PortalInit /\ [][PortalNext]_portalVars
-----------------------------------------------------------------------------
\* The path MQTT loads a certificate from holds a whole file that was uploaded for that
\* slot, or none, whatever fails or is cut (cert_store.c: "an interrupted upload cannot
\* leave a half-written PEM in the path the MQTT runtime loads").
CertificateIsWhole == \A s \in CertSlots : files[s] = None \/ files[s].of = s
=============================================================================
