--------------------------- MODULE PageIsolation ---------------------------
(***************************************************************************)
(* How the published page comes by the two headers its threads need from a *)
(* host that cannot send them (shell/cubeulator-isolation.js). The page    *)
(* registers a service worker that adds them, waits for it, and reloads    *)
(* itself once. Several tabs share the one worker.                         *)
(*                                                                         *)
(* The browser's own part is from the script's use of it: a page loaded    *)
(* while the worker is active is controlled by it unless the load is a     *)
(* hard one; register() answers once there is a worker.                    *)
(***************************************************************************)
EXTENDS Naturals

CONSTANTS
  Tabs,
  MaxLoads   \* loads by a person, of each tab; bounds Load

ASSUME LoadsCounted == MaxLoads \in Nat

VARIABLES
  served,   \* the host sends the headers itself
  able,     \* secure, and with service workers
  honoured,   \* the browser isolates a page whose headers the worker added
  registration, \* of the worker: none, installing, active
  tab,      \* each page: its script, and whether the worker controls it
  loads     \* by a person, of each tab

isolationVars == <<served, able, honoured, registration, tab, loads>>

Pcs == {"closed", "loading", "registering", "waiting", "ready", "failed"}

Closed == [pc |-> "closed", hard |-> FALSE, controlled |-> FALSE, reloads |-> 0]

IsolationInit ==
  /\ served \in BOOLEAN /\ able \in BOOLEAN /\ honoured \in BOOLEAN
  /\ registration = "none"
  /\ tab = [t \in Tabs |-> Closed] /\ loads = [t \in Tabs |-> 0]

-----------------------------------------------------------------------------
(* The page                                                                *)

(* A person opens the page or reloads it, with or without the cache.       *)
Load(t) ==
  /\ loads[t] < MaxLoads
  /\ loads' = [loads EXCEPT ![t] = @ + 1]
  /\ \E hard \in BOOLEAN :
       tab' = [tab EXCEPT ![t] = [Closed EXCEPT !.pc = "loading", !.hard = hard]]
  /\ UNCHANGED <<served, able, honoured, registration>>

(* location.reload()                                                       *)
Reload(page) == [page EXCEPT !.pc = "loading", !.hard = FALSE,
                             !.controlled = FALSE, !.reloads = @ + 1]

(* The document arrives, through the worker or not, and its script runs as *)
(* far as register().                                                      *)
Run(t) ==
  /\ tab[t].pc = "loading"
  /\ LET controlled == able /\ registration = "active" /\ ~tab[t].hard
         isolated   == served \/ (controlled /\ honoured)
     IN tab' = [tab EXCEPT
          ![t].controlled = controlled,
          ![t].pc = IF isolated THEN "ready"
                    ELSE IF able THEN "registering" ELSE "failed"]
  /\ UNCHANGED <<served, able, honoured, registration, loads>>

\* Mutant of Registered: a page that has its worker reloads too.
RegisteredAgain(t) ==
  /\ tab[t].pc = "registering"
  /\ registration' = IF registration = "none" THEN "installing" ELSE registration
  /\ tab' = [tab EXCEPT ![t] = IF registration = "active" THEN Reload(@)
                               ELSE [@ EXCEPT !.pc = "waiting"]]
  /\ UNCHANGED <<served, able, honoured, loads>>

(* register() resolves. There is a worker by then, so that the reload for  *)
(* want of one is never come to.                                           *)
Registered(t) ==
  /\ tab[t].pc = "registering"
  /\ registration' = IF registration = "none" THEN "installing" ELSE registration
  /\ tab' = [tab EXCEPT
       ![t] = IF @.controlled THEN [@ EXCEPT !.pc = "failed"]
              ELSE IF registration = "active" THEN Reload(@)
              ELSE [@ EXCEPT !.pc = "waiting"]]
  /\ UNCHANGED <<served, able, honoured, loads>>

Rejected(t) ==
  /\ tab[t].pc = "registering"
  /\ tab' = [tab EXCEPT ![t].pc = "failed"]
  /\ UNCHANGED <<served, able, honoured, registration, loads>>

(* The worker's statechange event, after it has become active.             *)
Activated(t) ==
  /\ tab[t].pc = "waiting" /\ registration = "active"
  /\ tab' = [tab EXCEPT ![t] = Reload(@)]
  /\ UNCHANGED <<served, able, honoured, registration, loads>>

-----------------------------------------------------------------------------
(* The worker skips waiting and, before it counts as activated, claims     *)
(* every page that is open.                                                *)
Activate ==
  /\ registration = "installing"
  /\ registration' = "active"
  /\ tab' = [t \in Tabs |->
       IF tab[t].pc \in {"closed", "loading"} THEN tab[t]
       ELSE [tab[t] EXCEPT !.controlled = TRUE]]
  /\ UNCHANGED <<served, able, honoured, loads>>

(* It cannot be installed. Nobody is told: only "activated" is listened to.*)
NotInstalled ==
  /\ registration = "installing"
  /\ registration' = "none"
  /\ UNCHANGED <<served, able, honoured, tab, loads>>

IsolationNext ==
  \/ \E t \in Tabs :
       Load(t) \/ Run(t) \/ Registered(t) \/ Rejected(t) \/ Activated(t)
  \/ Activate \/ NotInstalled

IsolationSpec == IsolationInit /\ [][IsolationNext]_isolationVars

-----------------------------------------------------------------------------
IsolationTypeOK ==
  /\ served \in BOOLEAN /\ able \in BOOLEAN /\ honoured \in BOOLEAN
  /\ registration \in {"none", "installing", "active"}
  /\ tab \in [Tabs -> [pc : Pcs, hard : BOOLEAN, controlled : BOOLEAN,
                       reloads : Nat]]
  /\ loads \in [Tabs -> 0..MaxLoads]

(* The page reloads itself at most once for each time a person loads it,   *)
(* in whatever order the tabs load, register and are claimed, and also in  *)
(* a browser that the worker's headers do not isolate, where reloading     *)
(* again would go on for ever.                                             *)
OneReload == \A t \in Tabs : tab[t].reloads <= 1
=============================================================================
