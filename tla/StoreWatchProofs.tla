-------------------------- MODULE StoreWatchProofs --------------------------
(* Proofs about StoreWatch, for every tree of directories and every bound. *)
EXTENDS StoreWatch, TLAPS

\* what is in a directory belongs there, and only what exists has contents
Fits == \A d \in Dirs : disk[d] \subseteq Contents(d) /\ (disk[d] # {} => Exists(d))

Seen(d) ==
  \/ d \in monitors \cup todo
  \/ timer
  \/ <<ParentOf[d], TRUE>> \in events

\* Monitors are on what exists.  After a scan the root has one or is about to
\* get one, and so has every directory in a directory that has one, unless an
\* event or the timer tells of it.
Armed ==
  /\ \A d \in monitors : Exists(d)
  /\ phase = "arm" => todo \subseteq Dirs \ Linked
  /\ phase = "idle" => todo = {}
  /\ phase # "scan" => Root \in monitors \cup todo
  /\ phase # "scan" =>
       \A d \in Dirs \ (Linked \cup {Root}) :
          Exists(d) /\ ParentOf[d] \in monitors => Seen(d)

WatchInv == TypeOK /\ Fits /\ Armed

LEMMA InitWatch == Init => WatchInv
  <1> SUFFICES ASSUME Init PROVE WatchInv
    OBVIOUS
  <1> PICK e \in SUBSET Entries : disk = [NoTree EXCEPT ![Root] = e]
    BY DEF Init
  <1>0. \A d \in Dirs : disk[d] = IF d = Root THEN e ELSE {}
    BY StoreWatchAssumption DEF NoTree
  <1>1. TypeOK
    <2>1. disk \in Tree
      BY StoreWatchAssumption DEF NoTree, Tree, Items
    <2>2. listing \in Tree /\ sidebar \in Tree
      BY DEF Init, NoTree, Tree
    <2>3. monitors \in SUBSET (Dirs \ Linked) /\ todo \in SUBSET Dirs
      BY StoreWatchAssumption DEF Init
    <2> QED  BY <2>1, <2>2, <2>3 DEF Init, TypeOK
  <1>2. Fits
    <2> SUFFICES ASSUME NEW d \in Dirs
                 PROVE  disk[d] \subseteq Contents(d) /\ (disk[d] # {} => Exists(d))
      BY DEF Fits
    <2>1. disk[d] \subseteq Entries
      BY <1>0
    <2>2. disk[d] # {} => Exists(d)
      BY <1>0 DEF Exists
    <2> QED  BY <2>1, <2>2 DEF Contents
  <1>3. Armed
    BY DEF Init, Armed
  <1> QED  BY <1>1, <1>2, <1>3 DEF WatchInv

\* the steps that leave the store alone leave what it is
LEMMA FitsStays == ASSUME Fits, UNCHANGED disk PROVE Fits'
  BY DEF Fits, Exists, Contents, SubDirs

LEMMA NotifyType ==
  ASSUME TypeOK, NEW d \in Dirs, NEW b \in BOOLEAN, Notify(d, b)
  PROVE  /\ events' \in SUBSET (Dirs \X BOOLEAN)
         /\ events \subseteq events'
         /\ d \in monitors => <<d, b>> \in events'
  BY DEF Notify, TypeOK

LEMMA CreateWatch ==
  ASSUME WatchInv, NEW d \in Dirs, NEW item \in Items, Create(d, item)
  PROVE  WatchInv'
  <1> USE DEF WatchInv
  <1>0. /\ UNCHANGED <<timer, phase, todo, listing, missed, sidebar, monitors>>
        /\ Exists(d)
        /\ disk' = [disk EXCEPT ![d] = @ \cup {item}]
        /\ item \in Contents(d)
        /\ Notify(d, TRUE)
    BY DEF Create, Change, work
  <1>1. /\ events' \in SUBSET (Dirs \X BOOLEAN)
        /\ events \subseteq events'
        /\ d \in monitors => <<d, TRUE>> \in events'
    BY <1>0, NotifyType
  <1>2. TypeOK'
    <2>1. disk' \in Tree
      BY <1>0 DEF TypeOK, Tree
    <2>2. changes' \in Nat /\ unread' \in SUBSET Dirs
      BY DEF Create, Change, TypeOK
    <2> QED  BY <1>0, <1>1, <2>1, <2>2 DEF TypeOK
  <1>3. \A e \in Dirs : disk'[e] = IF e = d THEN disk[d] \cup {item} ELSE disk[e]
    BY <1>0 DEF TypeOK, Tree
  <1>4. \A e \in Dirs : Exists(e) => Exists(e)'
    BY <1>3, StoreWatchAssumption DEF Exists
  <1>5. Fits'
    BY <1>0, <1>3, <1>4 DEF Fits, Contents, SubDirs
  <1>6. ASSUME NEW e \in Dirs \ (Linked \cup {Root}), phase # "scan",
               Exists(e)', ParentOf[e] \in monitors
        PROVE  Seen(e)'
    <2>1. CASE Exists(e)
      BY <1>0, <1>1, <1>6, <2>1 DEF Armed, Seen
    <2>2. CASE ~Exists(e)
      <3>1. ParentOf[e] = d
        BY <1>3, <1>6, <2>2, StoreWatchAssumption DEF Exists
      <3> QED  BY <1>1, <1>6, <3>1 DEF Seen
    <2> QED  BY <2>1, <2>2
  <1>7. Armed'
    <2>1. \A e \in monitors' : Exists(e)'
      BY <1>0, <1>4 DEF Armed, TypeOK
    <2> QED  BY <1>0, <1>6, <2>1 DEF Armed
  <1> QED  BY <1>2, <1>5, <1>7

LEMMA RemoveWatch ==
  ASSUME WatchInv, NEW d \in Dirs, NEW item \in Items, Remove(d, item)
  PROVE  WatchInv'
  <1> USE DEF WatchInv
  <1>0. /\ UNCHANGED <<timer, phase, todo, listing, missed, sidebar>>
        /\ disk' = [disk EXCEPT ![d] = @ \ {item}]
        /\ monitors' = monitors \ {item}
        /\ item \in Contents(d)
        /\ item \in Dirs => disk[item] = {}
        /\ Notify(d, TRUE)
    BY DEF Remove, Change, work
  <1>1. events' \in SUBSET (Dirs \X BOOLEAN) /\ events \subseteq events'
    BY <1>0, NotifyType
  <1>2. TypeOK'
    <2>1. disk' \in Tree
      BY <1>0 DEF TypeOK, Tree
    <2>2. changes' \in Nat /\ unread' \in SUBSET Dirs
      BY DEF Remove, Change, TypeOK
    <2> QED  BY <1>0, <1>1, <2>1, <2>2 DEF TypeOK
  <1>3. \A e \in Dirs : disk'[e] = IF e = d THEN disk[d] \ {item} ELSE disk[e]
    BY <1>0 DEF TypeOK, Tree
  <1>4. \A e \in Dirs : /\ Exists(e)' => Exists(e)
                        /\ Exists(e) /\ e # item => Exists(e)'
    BY <1>3, StoreWatchAssumption DEF Exists
  <1>5. Fits'
    <2> SUFFICES ASSUME NEW e \in Dirs
                 PROVE  disk'[e] \subseteq Contents(e) /\ (disk'[e] # {} => Exists(e)')
      BY DEF Fits, Contents, SubDirs
    <2>1. disk'[e] \subseteq disk[e]
      BY <1>3
    <2>2. e = item => disk[e] = {}
      BY <1>0
    <2> QED  BY <1>4, <2>1, <2>2 DEF Fits
  <1>6. item # Root
    BY StoreWatchAssumption DEF Items
  <1>7. ASSUME NEW e \in Dirs \ (Linked \cup {Root}), phase # "scan",
               Exists(e)', ParentOf[e] \in monitors'
        PROVE  Seen(e)'
    <2>1. Seen(e)
      BY <1>0, <1>4, <1>7 DEF Armed
    <2>2. e # item
      <3>1. CASE e = item
        <4>1. ParentOf[e] = d
          BY <1>0, <1>7, <3>1, StoreWatchAssumption DEF Contents, SubDirs
        <4> QED  BY <1>3, <1>7, <3>1, <4>1, StoreWatchAssumption DEF Exists
      <3> QED  BY <3>1
    <2> QED  BY <1>0, <1>1, <2>1, <2>2 DEF Seen
  <1>8. Armed'
    <2>1. \A e \in monitors' : Exists(e)'
      BY <1>0, <1>4 DEF Armed, TypeOK
    <2> QED  BY <1>0, <1>6, <1>7, <2>1 DEF Armed
  <1> QED  BY <1>2, <1>5, <1>8

\* the main loop's steps: the store stays as it is
LEMMA WorkWatch ==
  ASSUME WatchInv,
         \/ \E d \in Dirs : Churn(d) \/ ScanDir(d)
         \/ \E d \in Dirs, b \in BOOLEAN : OnDirChanged(d, b)
         \/ WatchFire \/ Rebuild \/ ScanEnds \/ ArmEnds \/ UNCHANGED vars
  PROVE  WatchInv'
  <1> USE DEF WatchInv
  <1>1. UNCHANGED disk
    BY DEF Churn, ScanDir, OnDirChanged, WatchFire, Rebuild, ScanEnds, ArmEnds, vars, store
  <1>2. Fits'
    BY <1>1, FitsStays
  <1>3. \A d \in Dirs : Exists(d)' = Exists(d)
    BY <1>1 DEF Exists
  <1>4. CASE \E d \in Dirs : Churn(d)
    <2> PICK d \in Dirs : Churn(d)
      BY <1>4
    <2>1. /\ UNCHANGED <<changes, unread, monitors, timer, phase, todo, listing, missed, sidebar>>
          /\ events' \in SUBSET (Dirs \X BOOLEAN) /\ events \subseteq events'
      BY NotifyType DEF Churn, store, work
    <2>2. TypeOK'
      BY <1>1, <2>1 DEF TypeOK
    <2>3. Armed'
      BY <1>3, <2>1 DEF Armed, Seen, TypeOK
    <2> QED  BY <1>2, <2>2, <2>3
  <1>5. CASE \E d \in Dirs : ScanDir(d)
    <2> PICK d \in Dirs : ScanDir(d)
      BY <1>5
    <2>1. /\ UNCHANGED <<changes, monitors, events, timer, phase, sidebar>>
          /\ phase = "scan"
          /\ todo' \in SUBSET Dirs /\ unread' \in SUBSET Dirs /\ missed' \in SUBSET Dirs
      BY DEF ScanDir, watch, TypeOK
    <2>2. listing' \in Tree
      <3>1. disk[d] \in SUBSET Items
        BY DEF TypeOK, Tree
      <3> QED  BY <3>1 DEF ScanDir, TypeOK, Tree
    <2>3. TypeOK'
      BY <1>1, <2>1, <2>2 DEF TypeOK
    <2>4. Armed'
      BY <1>3, <2>1 DEF Armed, TypeOK
    <2> QED  BY <1>2, <2>3, <2>4
  <1>6. CASE \E d \in Dirs, b \in BOOLEAN : OnDirChanged(d, b)
    <2> PICK d \in Dirs, b \in BOOLEAN : OnDirChanged(d, b)
      BY <1>6
    <2>1. /\ UNCHANGED <<changes, unread, monitors, phase, todo, listing, missed, sidebar>>
          /\ events' = events \ {<<d, b>>}
          /\ timer' = (timer \/ b)
      BY DEF OnDirChanged, store, work
    <2>2. TypeOK'
      BY <1>1, <2>1 DEF TypeOK
    <2>3. \A e \in Dirs : Seen(e) => Seen(e)'
      BY <2>1 DEF Seen
    <2>4. Armed'
      BY <1>3, <2>1, <2>3 DEF Armed, TypeOK
    <2> QED  BY <1>2, <2>2, <2>4
  <1>7. CASE WatchFire \/ Rebuild
    <2>1. /\ UNCHANGED <<changes, unread, monitors, events, sidebar, missed>>
          /\ timer' \in BOOLEAN
          /\ phase' = "scan" /\ todo' = {Root} /\ listing' = NoTree
      BY <1>7 DEF WatchFire, Rebuild, StartScan, store, watch, TypeOK
    <2>2. NoTree \in Tree
      BY DEF NoTree, Tree
    <2>3. TypeOK'
      BY <1>1, <2>1, <2>2, StoreWatchAssumption DEF TypeOK
    <2>4. Armed'
      BY <1>3, <2>1 DEF Armed, TypeOK
    <2> QED  BY <1>2, <2>3, <2>4
  <1>8. CASE ScanEnds
    <2>1. /\ UNCHANGED <<changes, unread, timer, listing, missed>>
          /\ sidebar' = listing /\ phase' = "arm" /\ todo' = {Root}
          /\ monitors' = {} /\ events' = {}
      BY <1>8 DEF ScanEnds, store
    <2>2. TypeOK'
      BY <1>1, <2>1, StoreWatchAssumption DEF TypeOK
    <2>3. Armed'
      BY <2>1, StoreWatchAssumption DEF Armed
    <2> QED  BY <1>2, <2>2, <2>3
  <1>9. CASE ArmEnds \/ UNCHANGED vars
    <2>1. /\ UNCHANGED <<changes, unread, monitors, events, timer, todo, listing, missed, sidebar>>
          /\ \/ phase = "arm" /\ todo = {} /\ phase' = "idle"
             \/ phase' = phase
      BY <1>9 DEF ArmEnds, vars, store, watch, work
    <2>2. TypeOK'
      BY <1>1, <2>1 DEF TypeOK
    <2>3. \A e \in Dirs : Seen(e)' = Seen(e)
      BY <2>1 DEF Seen
    <2>4. Armed'
      BY <1>3, <2>1, <2>3 DEF Armed, TypeOK
    <2> QED  BY <1>2, <2>2, <2>4
  <1> QED  BY <1>4, <1>5, <1>6, <1>7, <1>8, <1>9

LEMMA ArmWatch ==
  ASSUME WatchInv, NEW d \in Dirs, WatchDir(d)
  PROVE  WatchInv'
  <1> USE DEF WatchInv
  <1>0. /\ UNCHANGED <<disk, changes, unread, events, timer, phase, listing, sidebar>>
        /\ phase = "arm" /\ d \in todo
        /\ monitors' = monitors \cup {e \in {d} : Exists(d)}
        /\ todo' = (todo \ {d}) \cup (IF Exists(d) THEN (disk[d] \cap Dirs) \ Linked ELSE {})
    BY DEF WatchDir, store
  <1>1. Fits'
    BY <1>0, FitsStays
  <1>2. \A e \in Dirs : Exists(e)' = Exists(e)
    BY <1>0 DEF Exists
  <1>3. todo' \subseteq Dirs \ Linked /\ monitors' \in SUBSET (Dirs \ Linked)
    BY <1>0 DEF Armed, TypeOK
  <1>4. TypeOK'
    BY <1>0, <1>3 DEF WatchDir, TypeOK
  <1>5. ASSUME NEW e \in Dirs \ (Linked \cup {Root}), Exists(e), ParentOf[e] \in monitors'
        PROVE  Seen(e)'
    <2>1. CASE ParentOf[e] \in monitors
      <3>1. Seen(e)
        BY <1>0, <1>5, <2>1 DEF Armed
      <3>2. e \in todo => e \in monitors' \cup todo'
        BY <1>0, <1>5
      <3> QED  BY <1>0, <3>1, <3>2 DEF Seen
    <2>2. CASE ParentOf[e] = d /\ Exists(d)
      BY <1>0, <1>5, <2>2, StoreWatchAssumption DEF Exists, Seen
    <2> QED  BY <1>0, <1>5, <2>1, <2>2
  <1>6. Root \in monitors' \cup todo'
    BY <1>0 DEF Armed, Exists
  <1>7. \A e \in monitors' : Exists(e)'
    BY <1>0, <1>2, <1>3 DEF Armed, TypeOK
  <1>8. Armed'
    BY <1>0, <1>2, <1>3, <1>5, <1>6, <1>7 DEF Armed
  <1> QED  BY <1>1, <1>4, <1>8

LEMMA NextWatch == WatchInv /\ [Next]_vars => WatchInv'
  <1> SUFFICES ASSUME WatchInv, [Next]_vars PROVE WatchInv'
    OBVIOUS
  <1>1. CASE \E d \in Dirs, i \in Items : Create(d, i)
    BY <1>1, CreateWatch
  <1>2. CASE \E d \in Dirs, i \in Items : Remove(d, i)
    BY <1>2, RemoveWatch
  <1>3. CASE \E d \in Dirs : WatchDir(d)
    BY <1>3, ArmWatch
  <1>4. CASE \/ \E d \in Dirs : Churn(d) \/ ScanDir(d)
             \/ \E d \in Dirs, b \in BOOLEAN : OnDirChanged(d, b)
             \/ WatchFire \/ Rebuild \/ ScanEnds \/ ArmEnds \/ UNCHANGED vars
    BY <1>4, WorkWatch
  <1> QED  BY <1>1, <1>2, <1>3, <1>4 DEF Next, Others, Deliver, Working

\* Every variable of the watch keeps its type; in particular no directory
\* behind a symbolic link ever gets a monitor (watch_add_tree).
THEOREM TypeCorrect == Spec => []TypeOK
  <1>1. WatchInv => TypeOK
    BY DEF WatchInv
  <1> QED  BY InitWatch, NextWatch, <1>1, PTL DEF Spec

LEMMA WatchedWhenQuiet == WatchInv => QuietMeansWatched
  <1>1. ASSUME WatchInv, Quiet
        PROVE  monitors = {d \in Dirs \ Linked : Exists(d)}
    <2> USE <1>1 DEF WatchInv
    <2> DEFINE S == monitors \cup Linked \cup {d \in Dirs : ~Exists(d)}
    <2>1. S \in SUBSET Dirs
      BY StoreWatchAssumption DEF TypeOK
    <2>2. Root \in S
      BY DEF Armed, Quiet
    <2>3. ASSUME NEW d \in Dirs \ {Root}, ParentOf[d] \in S
          PROVE  d \in S
      <3>0. ParentOf[d] \in Dirs
        BY StoreWatchAssumption
      <3>1. CASE ParentOf[d] \in Linked
        BY <3>1, StoreWatchAssumption
      <3>2. CASE ~Exists(ParentOf[d])
        <4>1. disk[ParentOf[d]] = {}
          BY <3>0, <3>2 DEF Fits
        <4> QED  BY <4>1 DEF Exists
      <3>3. CASE ParentOf[d] \in monitors /\ d \notin Linked /\ Exists(d)
        <4>1. Seen(d)
          BY <3>3 DEF Armed, Quiet
        <4> QED  BY <3>0, <4>1 DEF Seen, Quiet, Armed
      <3> QED  BY <2>3, <3>1, <3>2, <3>3
    <2>4. S = Dirs
      <3> HIDE DEF S
      <3> QED  BY <2>1, <2>2, <2>3, StoreWatchAssumption
    <2>5. monitors \subseteq {d \in Dirs \ Linked : Exists(d)}
      BY DEF TypeOK, Armed
    <2> QED  BY <2>4, <2>5
  <1> QED  BY <1>1 DEF QuietMeansWatched

\* The monitors cover the store, however deep, whenever nothing is under way:
\* after any number of changes during and between the rearmings
\* (watch_add_tree, passfl_store_watch_rearm, on_dir_changed).
THEOREM StoreIsWatched == Spec => []QuietMeansWatched
  BY InitWatch, NextWatch, WatchedWhenQuiet, PTL DEF Spec
-----------------------------------------------------------------------------
(***************************************************************************)
(* What the sidebar shows.  A scan reckons with a set of directories: those *)
(* it has read and those that did not exist when it came to their parents, *)
(* which are empty until they change.  It grows downwards from the root    *)
(* until nothing is left to do.                                            *)
(***************************************************************************)
Reckoned(R) ==
  /\ Root \in R \cup todo
  /\ \A d \in R : d \notin unread => listing[d] = disk[d]
  /\ \A d \in Dirs \ {Root} : ParentOf[d] \in R => d \in R \cup todo

\* what was listed is as it was unless it changed; so is what is shown; and a
\* change after the rearming is on its way to the window
ShowInv ==
  /\ \A d \in Dirs : d \in unread \/ listing[d] \in {disk[d], {}}
  /\ phase = "scan" => \E R \in SUBSET Dirs : Reckoned(R)
  /\ phase # "scan" =>
       \A d \in Dirs : /\ d \notin unread => sidebar[d] = disk[d]
                       /\ d \in monitors \cap unread =>
                            d \in missed \/ timer \/ <<d, TRUE>> \in events

LEMMA InitShow == Init => ShowInv
  <1> SUFFICES ASSUME Init PROVE ShowInv
    OBVIOUS
  <1>1. Reckoned({})
    BY DEF Init, Reckoned
  <1> QED  BY <1>1 DEF Init, ShowInv

\* a change of d, or none of any directory
LEMMA ChangeShow ==
  ASSUME TypeOK, ShowInv, UNCHANGED <<timer, phase, todo, listing, missed, sidebar>>,
         monitors' \subseteq monitors, events \subseteq events', unread \subseteq unread',
         \A d \in Dirs : d \notin unread' => disk'[d] = disk[d],
         \A d \in Dirs : d \in monitors /\ d \in unread' \ unread => <<d, TRUE>> \in events'
  PROVE  ShowInv'
  <1>1. \A d \in Dirs : d \in unread' \/ listing'[d] \in {disk'[d], {}}
    BY DEF ShowInv
  <1>2. ASSUME NEW R \in SUBSET Dirs, Reckoned(R) PROVE Reckoned(R)'
    BY <1>2 DEF Reckoned
  <1>3. phase' # "scan" =>
          \A d \in Dirs : /\ d \notin unread' => sidebar'[d] = disk'[d]
                          /\ d \in monitors' \cap unread' =>
                               d \in missed' \/ timer' \/ <<d, TRUE>> \in events'
    BY DEF ShowInv
  <1>4. phase' = "scan" => \E R \in SUBSET Dirs : Reckoned(R)'
    BY <1>2 DEF ShowInv
  <1> QED  BY <1>1, <1>3, <1>4 DEF ShowInv

LEMMA OthersShow == ASSUME TypeOK, ShowInv, Others PROVE ShowInv'
  <1>1. CASE \E d \in Dirs, i \in Items : Create(d, i) \/ Remove(d, i)
    <2>1. PICK d \in Dirs, i \in Items : Create(d, i) \/ Remove(d, i)
      BY <1>1
    <2>2. /\ UNCHANGED <<timer, phase, todo, listing, missed, sidebar>>
          /\ monitors' \subseteq monitors
          /\ unread' = unread \cup {d}
          /\ Notify(d, TRUE)
      BY <2>1 DEF Create, Remove, Change, work
    <2>3. \A e \in Dirs : e # d => disk'[e] = disk[e]
      BY <2>1 DEF Create, Remove, TypeOK, Tree
    <2>4. events \subseteq events' /\ (d \in monitors => <<d, TRUE>> \in events')
      BY <2>2 DEF Notify
    <2> QED  BY <2>2, <2>3, <2>4, ChangeShow
  <1>2. CASE \E d \in Dirs : Churn(d)
    <2>1. PICK d \in Dirs : Churn(d)
      BY <1>2
    <2>2. /\ UNCHANGED <<disk, unread, monitors, timer, phase, todo, listing, missed, sidebar>>
          /\ events \subseteq events'
      BY <2>1 DEF Churn, Notify, store, work
    <2> QED  BY <2>2, ChangeShow
  <1> QED  BY <1>1, <1>2 DEF Others

LEMMA ScanDirShow ==
  ASSUME WatchInv, ShowInv, NEW d \in Dirs, ScanDir(d)
  PROVE  ShowInv'
  <1>0. /\ UNCHANGED <<disk, phase>> /\ phase = "scan" /\ d \in todo
        /\ unread' = unread \ {d}
        /\ listing' = [listing EXCEPT ![d] = IF Exists(d) THEN disk[d] ELSE {}]
        /\ todo' = (todo \ {d}) \cup (IF Exists(d) THEN disk[d] \cap Dirs ELSE {})
    BY DEF ScanDir
  <1>1. \A e \in Dirs : ~Exists(e) => disk[e] = {}
    BY DEF WatchInv, Fits
  <1>2. listing'[d] = disk[d] /\ \A e \in Dirs : e # d => listing'[e] = listing[e]
    BY <1>0, <1>1 DEF WatchInv, TypeOK, Tree
  <1>3. \A e \in Dirs : e \in unread' \/ listing'[e] \in {disk'[e], {}}
    BY <1>0, <1>2 DEF ShowInv
  <1>4. PICK R \in SUBSET Dirs : Reckoned(R)
    BY <1>0 DEF ShowInv
  <1>5. PICK S \in SUBSET Dirs : S = R \cup {d} \cup {e \in Dirs : ~Exists(e)}
    OBVIOUS
  <1>6. ASSUME NEW e \in S, e \notin unread' PROVE listing'[e] = disk'[e]
    <2>1. CASE e = d
      BY <1>0, <1>2, <2>1
    <2>2. CASE e # d /\ e \in R
      BY <1>0, <1>2, <1>4, <1>6, <2>2 DEF Reckoned
    <2>3. CASE e # d /\ ~Exists(e) /\ e \in Dirs
      BY <1>0, <1>1, <1>2, <1>6, <2>3 DEF ShowInv
    <2> QED  BY <1>5, <1>6, <2>1, <2>2, <2>3
  <1>7. ASSUME NEW e \in Dirs \ {Root}, ParentOf[e] \in S PROVE e \in S \cup todo'
    <2>1. CASE ~Exists(e)
      BY <1>5, <2>1
    <2>2. CASE Exists(e) /\ ParentOf[e] = d
      <3>1. e \in disk[d] /\ Exists(d)
        BY <1>1, <2>2, <1>7 DEF Exists
      <3> QED  BY <1>0, <1>5, <3>1
    <2>3. CASE Exists(e) /\ ParentOf[e] \in R
      BY <1>0, <1>4, <1>5, <2>3 DEF Reckoned
    <2>4. CASE Exists(e) /\ ParentOf[e] \in Dirs /\ ~Exists(ParentOf[e])
      BY <1>1, <1>7, <2>4 DEF Exists
    <2> QED  BY <1>5, <1>7, <2>1, <2>2, <2>3, <2>4
  <1>8. Reckoned(S)'
    <2>1. Root \in S \cup todo'
      BY <1>0, <1>4, <1>5 DEF Reckoned
    <2> QED  BY <1>6, <1>7, <2>1 DEF Reckoned
  <1>9. \E Q \in SUBSET Dirs : Reckoned(Q)'
    BY <1>8
  <1> QED  BY <1>0, <1>3, <1>9 DEF ShowInv

LEMMA WorkShow ==
  ASSUME WatchInv, ShowInv,
         \/ \E d \in Dirs, b \in BOOLEAN : OnDirChanged(d, b)
         \/ WatchFire \/ Rebuild \/ ScanEnds \/ ArmEnds \/ UNCHANGED vars
         \/ \E d \in Dirs : WatchDir(d)
  PROVE  ShowInv'
  <1>0. TypeOK /\ UNCHANGED <<disk, unread>>
    BY DEF WatchInv, OnDirChanged, WatchFire, Rebuild, ScanEnds, ArmEnds, WatchDir, vars, store
  <1>1. CASE \E d \in Dirs, b \in BOOLEAN : OnDirChanged(d, b)
    <2>1. PICK d \in Dirs, b \in BOOLEAN : OnDirChanged(d, b)
      BY <1>1
    <2>2. /\ UNCHANGED <<monitors, phase, listing, missed, sidebar>> /\ phase = "idle"
          /\ events' = events \ {<<d, b>>} /\ timer' = (timer \/ b)
      BY <2>1 DEF OnDirChanged, work
    <2> QED  BY <1>0, <2>2 DEF ShowInv
  <1>2. CASE WatchFire \/ Rebuild
    <2>1. phase' = "scan" /\ todo' = {Root} /\ listing' = NoTree
      BY <1>2 DEF WatchFire, Rebuild, StartScan
    <2>2. Reckoned({})'
      BY <2>1 DEF Reckoned
    <2>3. \A d \in Dirs : listing'[d] = {}
      BY <2>1 DEF NoTree
    <2>4. \E R \in SUBSET Dirs : Reckoned(R)'
      BY <2>2
    <2> QED  BY <2>1, <2>3, <2>4 DEF ShowInv
  <1>3. CASE ScanEnds
    <2>1. /\ phase = "scan" /\ todo = {} /\ sidebar' = listing /\ phase' = "arm"
          /\ monitors' = {} /\ UNCHANGED listing
      BY <1>3 DEF ScanEnds
    <2>2. PICK R \in SUBSET Dirs : Reckoned(R)
      BY <2>1 DEF ShowInv
    <2>3. R = Dirs
      BY <2>1, <2>2, StoreWatchAssumption DEF Reckoned
    <2>4. \A d \in Dirs : d \notin unread => listing[d] = disk[d]
      BY <2>2, <2>3 DEF Reckoned
    <2> QED  BY <1>0, <2>1, <2>4 DEF ShowInv
  <1>4. CASE ArmEnds
    <2>1. /\ UNCHANGED <<monitors, events, timer, listing, missed, sidebar>>
          /\ phase = "arm" /\ phase' = "idle"
      BY <1>4 DEF ArmEnds, watch
    <2> QED  BY <1>0, <2>1 DEF ShowInv
  <1>5. CASE \E d \in Dirs : WatchDir(d)
    <2>1. PICK d \in Dirs : WatchDir(d)
      BY <1>5
    <2>2. /\ UNCHANGED <<events, timer, phase, listing, sidebar>> /\ phase = "arm"
          /\ monitors' \subseteq monitors \cup {d}
          /\ missed' = missed \cup ({d} \cap unread)
      BY <2>1 DEF WatchDir
    <2> QED  BY <1>0, <2>2 DEF ShowInv
  <1>6. CASE UNCHANGED vars
    BY <1>0, <1>6, ChangeShow DEF vars, store, watch, work
  <1> QED  BY <1>1, <1>2, <1>3, <1>4, <1>5, <1>6

LEMMA NextShow == WatchInv /\ ShowInv /\ [Next]_vars => ShowInv'
  <1> SUFFICES ASSUME WatchInv, ShowInv, [Next]_vars PROVE ShowInv'
    OBVIOUS
  <1>1. CASE Others
    BY <1>1, OthersShow DEF WatchInv
  <1>2. CASE \E d \in Dirs : ScanDir(d)
    BY <1>2, ScanDirShow
  <1>3. CASE \/ \E d \in Dirs, b \in BOOLEAN : OnDirChanged(d, b)
             \/ WatchFire \/ Rebuild \/ ScanEnds \/ ArmEnds \/ UNCHANGED vars
             \/ \E d \in Dirs : WatchDir(d)
    BY <1>3, WorkShow
  <1> QED  BY <1>1, <1>2, <1>3 DEF Next, Deliver, Working

\* When nothing is under way the sidebar shows the store, but for what changed
\* between its scan and its rearming: no other change is ever lost, in a tree
\* of any depth (scan_dir, watch_add_tree, on_dir_changed, rebuild_sidebar).
THEOREM StoreIsShown == Spec => []QuietMeansShown
  <1>1. ASSUME WatchInv, ShowInv, Quiet, NEW d \in Dirs \ Linked
        PROVE  Shown(d) \/ d \in missed
    <2>1. Exists(d) => d \in monitors
      BY <1>1, WatchedWhenQuiet DEF QuietMeansWatched
    <2>2. phase # "scan" /\ ~timer /\ <<d, TRUE>> \notin events
      BY <1>1 DEF Quiet
    <2> QED  BY <1>1, <2>1, <2>2 DEF ShowInv, Shown
  <1>2. WatchInv /\ ShowInv => QuietMeansShown
    BY <1>1 DEF QuietMeansShown
  <1>3. Spec => [](WatchInv /\ ShowInv)
    BY InitWatch, InitShow, NextWatch, NextShow, PTL DEF Spec
  <1> QED  BY <1>2, <1>3, PTL
=============================================================================
