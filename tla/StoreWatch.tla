----------------------------- MODULE StoreWatch -----------------------------
(***************************************************************************)
(* How the sidebar follows the store: the scan of the directories and the  *)
(* watch on them (src/engine/store.c), and the window that puts the two    *)
(* together (rebuild_sidebar in src/app/window.c).  The main loop scans    *)
(* directory by directory, then drops its monitors and makes new ones,     *)
(* while pass, git and the file manager change the store.                  *)
(*                                                                         *)
(* GFileMonitor is external: a monitor queues an event for every change    *)
(* inside its directory, the main loop delivers it between two of its      *)
(* steps, and dropping a monitor drops its events.  A directory that is    *)
(* removed takes its inotify watch with it.  Two undelivered events of one *)
(* directory are as good as one, the handler only starts a timer.          *)
(*                                                                         *)
(* Left out: entries and directories whose names begin with a dot, which   *)
(* neither scan nor watch look at; the search; a store that is no          *)
(* directory; a directory reached by two paths, which the scan lists once. *)
(***************************************************************************)
EXTENDS Integers

CONSTANTS
  Dirs,       \* the directories there may be
  Root,       \* the store itself
  ParentOf,   \* the directory each of the others is in
  Linked,     \* the directories at or below a symbolic link
  Entries,    \* the names of entries
  MaxChanges  \* bound: changes of the store in a behaviour

ASSUME StoreWatchAssumption ==
  /\ Root \in Dirs \ Linked
  /\ Linked \subseteq Dirs
  /\ Dirs \cap Entries = {}
  /\ ParentOf \in [Dirs \ {Root} -> Dirs]
  /\ \A d \in Dirs \ {Root} : ParentOf[d] \in Linked => d \in Linked
  /\ \A S \in SUBSET Dirs : \* a tree: all are below the root
       Root \in S /\ (\A d \in Dirs \ {Root} : ParentOf[d] \in S => d \in S) => S = Dirs
  /\ MaxChanges \in Nat

VARIABLES
  disk,     \* what is in each directory
  monitors, \* the directories that have a monitor
  events,   \* undelivered events: the directory; a change, or one of the
            \* application's temporary files or of .git
  timer,    \* coalesce_id: the 400 ms are running
  phase,    \* what the main loop is doing: nothing, scan, (re)arm
  todo,     \* directories the scan or the arming has still to come to
  listing,  \* what the scan found so far
  sidebar,  \* the tree shown
  changes,  \* number of changes made
  unread,   \* (history) directories changed since they were last read
  missed    \* (history) directories that were unread when they got their monitor

store == <<disk, changes, unread>>
watch == <<monitors, events, timer>>
work  == <<phase, todo, listing, missed>>
vars  == <<store, watch, work, sidebar>>

SubDirs(d) == {c \in Dirs \ {Root} : ParentOf[c] = d}
Items  == Entries \cup (Dirs \ {Root})
Tree   == [Dirs -> SUBSET Items]
NoTree == [d \in Dirs |-> {}]
Exists(d) == d # Root => d \in disk[ParentOf[d]]

TypeOK ==
  /\ disk \in Tree
  /\ monitors \in SUBSET (Dirs \ Linked)
  /\ events \in SUBSET (Dirs \X BOOLEAN)
  /\ timer \in BOOLEAN
  /\ phase \in {"idle", "scan", "arm"}
  /\ todo \in SUBSET Dirs
  /\ listing \in Tree
  /\ sidebar \in Tree
  /\ changes \in Nat
  /\ unread \in SUBSET Dirs
  /\ missed \in SUBSET Dirs

\* a store of some entries, and a window that shows it for the first time
Init ==
  /\ disk \in {[NoTree EXCEPT ![Root] = e] : e \in SUBSET Entries}
  /\ monitors = {}
  /\ events = {}
  /\ timer = FALSE
  /\ phase = "scan"
  /\ todo = {Root}
  /\ listing = NoTree
  /\ sidebar = NoTree
  /\ changes = 0
  /\ unread = Dirs
  /\ missed = {}

-----------------------------------------------------------------------------
(* The other users of the store. *)

Notify(d, isChange) ==
  events' = IF d \in monitors THEN events \cup {<<d, isChange>>} ELSE events

Contents(d) == Entries \cup SubDirs(d)

Change(d) ==
  /\ Exists(d)
  /\ changes < MaxChanges
  /\ changes' = changes + 1
  /\ unread' = unread \cup {d}
  /\ Notify(d, TRUE)
  /\ UNCHANGED <<timer, work, sidebar>>

\* an entry is written or renamed into the directory, or a directory made
Create(d, item) ==
  /\ item \in Contents(d) \ disk[d]
  /\ Change(d)
  /\ disk' = [disk EXCEPT ![d] = @ \cup {item}]
  /\ UNCHANGED monitors

\* an entry or an empty directory goes
Remove(d, item) ==
  /\ item \in Contents(d) \cap disk[d]
  /\ item \in Dirs => disk[item] = {}
  /\ Change(d)
  /\ disk' = [disk EXCEPT ![d] = @ \ {item}]
  /\ monitors' = monitors \ {item}

\* a temporary file of the application's, or .git: nothing the sidebar shows
Churn(d) ==
  /\ Exists(d)
  /\ Notify(d, FALSE)
  /\ UNCHANGED <<store, monitors, timer, work, sidebar>>

-----------------------------------------------------------------------------
(* passfl_store_watch. *)

\* on_dir_changed: a change starts the timer unless it runs
OnDirChanged(d, isChange) ==
  /\ phase = "idle"
  /\ <<d, isChange>> \in events
  /\ events' = events \ {<<d, isChange>>}
  /\ timer' = (timer \/ isChange)
  /\ UNCHANGED <<store, monitors, work, sidebar>>

StartScan ==
  /\ phase' = "scan"
  /\ todo' = {Root}
  /\ listing' = NoTree

\* (mutant) the timer ends and nobody is told
WatchFireSilent ==
  /\ phase = "idle"
  /\ timer
  /\ timer' = FALSE
  /\ UNCHANGED <<store, monitors, events, sidebar, work>>

\* watch_fire: on_store_changed, that is rebuild_sidebar
WatchFire ==
  /\ phase = "idle"
  /\ timer
  /\ timer' = FALSE
  /\ StartScan
  /\ UNCHANGED <<store, monitors, events, sidebar, missed>>

\* rebuild_sidebar after a save, a deletion, a rename, a restore
Rebuild ==
  /\ phase = "idle"
  /\ StartScan
  /\ UNCHANGED <<store, watch, sidebar, missed>>

\* scan_dir: one directory, which may have gone; symbolic links are followed
ScanDir(d) ==
  /\ phase = "scan"
  /\ d \in todo
  /\ listing' = [listing EXCEPT ![d] = IF Exists(d) THEN disk[d] ELSE {}]
  /\ todo' = (todo \ {d}) \cup (IF Exists(d) THEN disk[d] \cap Dirs ELSE {})
  /\ unread' = unread \ {d}
  /\ missed' = missed \ {d}
  /\ UNCHANGED <<disk, changes, watch, phase, sidebar>>

\* (mutant) the monitors stay as they are: rebuild_sidebar without the rearm
ScanEndsUnarmed ==
  /\ phase = "scan"
  /\ todo = {}
  /\ sidebar' = listing
  /\ phase' = IF monitors = {} THEN "arm" ELSE "idle"
  /\ todo' = IF monitors = {} THEN {Root} ELSE {}
  /\ UNCHANGED <<store, listing, missed, watch>>

\* the tree is shown; passfl_store_watch_rearm, or passfl_store_watch_new,
\* begins: no monitor is left and none of their events
ScanEnds ==
  /\ phase = "scan"
  /\ todo = {}
  /\ sidebar' = listing
  /\ phase' = "arm"
  /\ todo' = {Root}
  /\ monitors' = {}
  /\ events' = {}
  /\ UNCHANGED <<store, timer, listing, missed>>

\* (mutant) a monitor on the root only
WatchDirFlat(d) ==
  /\ phase = "arm"
  /\ d \in todo
  /\ todo' = todo \ {d}
  /\ monitors' = monitors \cup {e \in {d} : Exists(d)}
  /\ missed' = missed \cup ({d} \cap unread)
  /\ UNCHANGED <<store, events, timer, phase, listing, sidebar>>

\* (mutant) symbolic links are followed
WatchDirLinked(d) ==
  /\ phase = "arm"
  /\ d \in todo
  /\ todo' = (todo \ {d}) \cup (IF Exists(d) THEN disk[d] \cap Dirs ELSE {})
  /\ monitors' = monitors \cup {e \in {d} : Exists(d)}
  /\ missed' = missed \cup ({d} \cap unread)
  /\ UNCHANGED <<store, events, timer, phase, listing, sidebar>>

\* watch_add_tree: a monitor, then the subdirectories that are no symbolic links
WatchDir(d) ==
  /\ phase = "arm"
  /\ d \in todo
  /\ todo' = (todo \ {d}) \cup (IF Exists(d) THEN (disk[d] \cap Dirs) \ Linked ELSE {})
  /\ monitors' = monitors \cup {e \in {d} : Exists(d)}
  /\ missed' = missed \cup ({d} \cap unread)
  /\ UNCHANGED <<store, events, timer, phase, listing, sidebar>>

ArmEnds ==
  /\ phase = "arm"
  /\ todo = {}
  /\ phase' = "idle"
  /\ UNCHANGED <<store, watch, todo, listing, missed, sidebar>>

-----------------------------------------------------------------------------
Others ==
  \E d \in Dirs : Churn(d) \/ \E i \in Items : Create(d, i) \/ Remove(d, i)

Deliver == \E d \in Dirs, isChange \in BOOLEAN : OnDirChanged(d, isChange)

Working == ScanEnds \/ ArmEnds \/ \E d \in Dirs : ScanDir(d) \/ WatchDir(d)

Next == Others \/ Deliver \/ WatchFire \/ Rebuild \/ Working

(***************************************************************************)
(* The main loop finishes what it does, delivers events in their order and *)
(* runs timers; it does so between two rebuilds too, hence strong fairness *)
(* of what it is only ready for when idle.  Nothing is assumed of who      *)
(* changes the store.                                                      *)
(***************************************************************************)
Fairness ==
  /\ WF_vars(Working)
  /\ SF_vars(WatchFire)
  /\ \A d \in Dirs : SF_vars(OnDirChanged(d, TRUE))

Spec == Init /\ [][Next]_vars /\ Fairness
-----------------------------------------------------------------------------
(* Properties.  Quiet: nothing is under way that could change the sidebar. *)

Quiet == phase = "idle" /\ ~timer /\ \A d \in Dirs : <<d, TRUE>> \notin events

\* a directory that is gone is shown if its parent lists it: the parent's error
Shown(d) == Exists(d) => sidebar[d] = disk[d]

\* When all is quiet, the sidebar shows every directory that is not behind a
\* symbolic link as it is, however the changes, the events, the timer and the
\* rebuilds interleaved - but for directories that changed between their turn
\* in the scan and their turn in passfl_store_watch_rearm, which nobody
\* notices: the one gap there is (rebuild_sidebar, on_dir_changed).
QuietMeansShown ==
  Quiet => \A d \in Dirs \ Linked : Shown(d) \/ d \in missed

\* When all is quiet, the directories with a monitor are those that exist, new
\* ones and those below new ones included, gaps or not: the next change is
\* noticed (watch_add_tree, passfl_store_watch_rearm).
QuietMeansWatched ==
  Quiet => monitors = {d \in Dirs \ Linked : Exists(d)}

\* When the changes end (the bound sees to that) the sidebar ends up showing
\* the store, save for what was missed: no event or timer is lost for good
\* (on_dir_changed, watch_fire).
SidebarCatchesUp ==
  <>[](\A d \in Dirs \ Linked : Shown(d) \/ d \in missed)
=============================================================================
