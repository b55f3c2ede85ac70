--------------------------- MODULE NetFiles_proofs ---------------------------
(***************************************************************************)
(* Proofs about importing, merging and pulling, for any nets, sessions and  *)
(* files, any upstream, and any number of windows where it says so.         *)
(***************************************************************************)
EXTENDS NetFiles, TLAPS, SequenceTheorems

-----------------------------------------------------------------------------
(* The inductive invariant.                                                 *)

RowFields == {"id", "net", "session", "is"}
DatabaseTypes ==
    /\ DOMAIN nets \subseteq NetIds /\ nets \in [DOMAIN nets -> Names] /\ writes \in 0..MaxWrites
    /\ \A r \in rows : /\ DOMAIN r = RowFields /\ r.net \in DOMAIN nets
                       /\ r.session \in Sessions /\ r.is \in {"file", "here", "open"}

WinFields == {"page", "nets", "target", "name", "asks", "merge", "file", "taken", "to", "plan"}
IsWin(rec) ==
    /\ DOMAIN rec = WinFields /\ rec.page \in {"list", "nets", "sessions"}
    /\ rec.asks # NoFile => rec.asks \in SessionExports
    /\ rec.merge \in {"none", "choose", "summary"}
    /\ rec.merge # "none" => rec.file \in Files
    /\ rec.merge = "summary" => DOMAIN rec.plan = rec.file.sessions
    /\ rec.asks = NoFile \/ rec.merge = "none"
WindowTypes == DOMAIN win = Windows /\ \A w \in Windows : IsWin(win[w])

Results == [what : {"nets", "files"}, generation : Nat, ok : BOOLEAN, net : Names \cup {NoFile},
            files : SUBSET Sessions]
PullTypes ==
    /\ pull \in [stage : {"none", "listing", "choosing", "fetching", "gone"}, sessions : BOOLEAN,
                 generation : Nat, net : Names \cup {NoFile}]
    /\ puller \in [at : {"none", "listing", "exporting", "copying"}, generation : Nat,
                   net : Names \cup {NoFile}]
    /\ posted \in Seq(Results) /\ dir \cup stray \subseteq Sessions

(* The Pull window takes every key: nothing else is up, and there is room for *)
(* what it may add.                                                         *)
Windowed ==
    show_pull_modal => /\ win[Console].merge = "none" /\ win[Console].asks = NoFile
                       /\ writes < MaxWrites

(* The thread runs for the window's present step.                            *)
Waiting ==
    puller.at # "none" =>
        /\ puller.generation = pull.generation /\ puller.net = pull.net
        /\ pull.stage = (IF puller.at = "listing" THEN "listing" ELSE "fetching")

(* No result is of a step to come; when one of the present step is posted the *)
(* thread is through, and files of it are those of the net asked for.        *)
Fetched ==
    /\ pull.stage = "fetching" => pull.net \in DOMAIN Upstream
    /\ \A i \in 1..Len(posted) :
          /\ posted[i].generation <= pull.generation
          /\ posted[i].generation = pull.generation => puller.at = "none"
          /\ posted[i].generation = pull.generation /\ posted[i].what = "files"
                /\ pull.stage = "fetching"
                    => posted[i].net = pull.net /\ posted[i].files \subseteq Upstream[pull.net]

PullInv == PullTypes /\ Waiting /\ Fetched

(* A plan's new sessions are missing in net `to`, and those that differ are    *)
(* the rows it names.                                                       *)
Fits(rec, held) ==
    \A x \in DOMAIN rec.plan :
        /\ rec.plan[x].kind = "new" => \A r \in held : ~(r.net = rec.to /\ r.session = x)
        /\ rec.plan[x].kind = "differs" =>
               \A r \in held : r.net = rec.to /\ r.session = x => r.id = rec.plan[x].local

(* With one window, its plan is not overtaken.                               *)
OneWindow ==
    Windows = {Console} =>
        /\ NotTwiceHere
        /\ win[Console].merge = "summary" => Fits(win[Console], rows)

NetFilesInv == DatabaseTypes /\ WindowTypes /\ PullInv /\ Windowed /\ OneWindow

-----------------------------------------------------------------------------
(* Initially.                                                               *)

LEMMA InitInv == Init => NetFilesInv
<1> SUFFICES ASSUME Init PROVE NetFilesInv
    OBVIOUS
<1>1. DatabaseTypes
    <2>1. nets = InitialNets /\ DOMAIN nets \subseteq NetIds /\ writes \in 0..MaxWrites
        BY NetFilesAssumption DEF Init
    <2>2. nets \in [DOMAIN nets -> Names]
        BY <2>1, NetFilesAssumption
    <2>3. ASSUME NEW r \in rows
          PROVE  /\ DOMAIN r = RowFields /\ r.net \in DOMAIN nets
                 /\ r.session \in Sessions /\ r.is \in {"file", "here", "open"}
        <3>1. PICK q \in InitialRows :
                  r = [id |-> <<0, q.net, q.session>>, net |-> q.net, session |-> q.session, is |-> q.is]
            BY DEF Init
        <3>2. q \in [net : DOMAIN InitialNets, session : Sessions, is : {"file", "here", "open"}]
            BY NetFilesAssumption
        <3> QED BY <2>1, <3>1, <3>2 DEF RowFields
    <2> QED BY <2>1, <2>2, <2>3 DEF DatabaseTypes
<1>2. WindowTypes
    BY DEF Init, WindowTypes, IsWin, WinFields, AppState
<1>3. PullInv
    <2>1. PullTypes
        BY DEF Init, PullTypes, NoPull, NoThread
    <2>2. Waiting /\ Fetched
        BY DEF Init, Waiting, Fetched, NoPull, NoThread
    <2> QED BY <2>1, <2>2 DEF PullInv
<1>4. Windowed
    BY DEF Init, Windowed, NoPull, show_pull_modal
<1>5. OneWindow
    <2>1. NotTwiceHere
        <3>1. ASSUME NEW r \in rows, NEW q \in rows, r.net = q.net, r.session = q.session
              PROVE  r = q
            <4>1. PICK i \in InitialRows :
                      r = [id |-> <<0, i.net, i.session>>, net |-> i.net, session |-> i.session, is |-> i.is]
                BY DEF Init
            <4>2. PICK j \in InitialRows :
                      q = [id |-> <<0, j.net, j.session>>, net |-> j.net, session |-> j.session, is |-> j.is]
                BY DEF Init
            <4>3. i.net = j.net /\ i.session = j.session
                BY <3>1, <4>1, <4>2
            <4>4. i = j
                BY <4>3, NetFilesAssumption
            <4> QED BY <4>1, <4>2, <4>4
        <3> QED BY <3>1 DEF NotTwiceHere
    <2>2. win[Console].merge = "none"
        BY NetFilesAssumption DEF Init, AppState
    <2> QED BY <2>1, <2>2 DEF OneWindow
<1> QED BY <1>1, <1>2, <1>3, <1>4, <1>5 DEF NetFilesInv

-----------------------------------------------------------------------------
(* Steps that change nothing but a window's record, or nothing of the pull.  *)

LEMMA SetsIs ==
    ASSUME WindowTypes, NEW w \in Windows, NEW rec, IsWin(rec), Sets(w, rec)
    PROVE  /\ WindowTypes' /\ win'[w] = rec
           /\ \A v \in Windows : v # w => win'[v] = win[v]
BY DEF WindowTypes, Sets

LEMMA PullStands ==
    ASSUME PullInv, UNCHANGED pulling
    PROVE  PullInv'
BY DEF PullInv, PullTypes, Waiting, Fetched, pulling

(* Window w has become rec, and the database what it may.                    *)
LEMMA WindowStep ==
    ASSUME NetFilesInv, NEW w \in Windows, NEW rec, IsWin(rec), Sets(w, rec), UNCHANGED pulling,
           w = Console => ~show_pull_modal,
           DatabaseTypes', show_pull_modal => writes' < MaxWrites,
           Windows = {Console} => NotTwiceHere',
           Windows = {Console} /\ rec.merge = "summary" => Fits(rec, rows')
    PROVE  NetFilesInv'
<1>1. /\ WindowTypes' /\ win'[w] = rec
      /\ \A v \in Windows : v # w => win'[v] = win[v]
    BY SetsIs DEF NetFilesInv
<1>2. PullInv'
    BY PullStands DEF NetFilesInv
<1>3. Windowed'
    BY <1>1, NetFilesAssumption DEF NetFilesInv, Windowed, show_pull_modal, pulling
<1>4. OneWindow'
    BY <1>1 DEF OneWindow
<1> QED BY <1>1, <1>2, <1>3, <1>4 DEF NetFilesInv

(* Window w has become rec, and the database is as it was.                   *)
LEMMA WindowOnly ==
    ASSUME NetFilesInv, NEW w \in Windows, NEW rec, IsWin(rec), Sets(w, rec),
           UNCHANGED <<database, pulling>>, w = Console => ~show_pull_modal,
           Windows = {Console} /\ rec.merge = "summary" => Fits(rec, rows)
    PROVE  NetFilesInv'
<1>1. nets' = nets /\ rows' = rows /\ writes' = writes
    BY DEF database
<1>2. DatabaseTypes'
    BY <1>1 DEF NetFilesInv, DatabaseTypes
<1>3. Windows = {Console} => NotTwiceHere'
    BY <1>1 DEF NetFilesInv, OneWindow, NotTwiceHere
<1>4. show_pull_modal => writes' < MaxWrites
    BY <1>1 DEF NetFilesInv, Windowed
<1> QED BY <1>1, <1>2, <1>3, <1>4, WindowStep

(* A window that has something up has no Pull window besides.                *)
LEMMA NoPullBesides ==
    ASSUME NetFilesInv, NEW w \in Windows,
           win[w].merge # "none" \/ win[w].asks # NoFile \/ Free(w)
    PROVE  w = Console => ~show_pull_modal
BY DEF NetFilesInv, Windowed, Free, show_pull_modal

(* Room for a write leaves the one that a pull may need.                     *)
LEMMA RoomLeft ==
    ASSUME NetFilesInv, NEW w \in Windows, Room(w), w = Console => ~show_pull_modal
    PROVE  /\ writes < MaxWrites
           /\ show_pull_modal => writes + 1 < MaxWrites
BY NetFilesAssumption DEF NetFilesInv, DatabaseTypes, Room

LEMMA BackOnList ==
    ASSUME NEW rec, IsWin(rec)
    PROVE  IsWin(RefreshNets(rec)) /\ RefreshNets(rec).merge = rec.merge
BY DEF IsWin, RefreshNets, WinFields

-----------------------------------------------------------------------------
(* What is written.                                                         *)

LEMMA WritesIs ==
    ASSUME NetFilesInv, NEW id, NEW sessions \in SUBSET Sessions, NEW without,
           Writes(id, sessions, without), writes < MaxWrites,
           DOMAIN nets \subseteq DOMAIN nets', DOMAIN nets' \subseteq NetIds,
           nets' \in [DOMAIN nets' -> Names], id \in DOMAIN nets'
    PROVE  /\ DatabaseTypes' /\ writes' = writes + 1
           /\ \A r \in rows' \ rows : r.net = id /\ r.session \in sessions
           /\ (/\ NotTwiceHere
               /\ \A r \in rows \ without : ~(r.net = id /\ r.session \in sessions))
                  => NotTwiceHere'
<1>1. writes' = writes + 1 /\ writes' \in 0..MaxWrites
    BY NetFilesAssumption DEF NetFilesInv, DatabaseTypes, Writes
<1>2. ASSUME NEW r \in rows'
      PROVE  \/ r \in rows \ without
             \/ \E x \in sessions : r = [id |-> <<writes', id, x>>, net |-> id, session |-> x, is |-> "file"]
    BY DEF Writes
<1>3. \A r \in rows' \ (rows \ without) : /\ DOMAIN r = RowFields /\ r.net = id
                                          /\ r.session \in sessions /\ r.is = "file"
    BY <1>2 DEF RowFields
<1>4. DatabaseTypes'
    BY <1>1, <1>3 DEF NetFilesInv, DatabaseTypes
<1>5. \A r, q \in rows' \ (rows \ without) : r.session = q.session => r = q
    BY <1>2
<1>6. ASSUME NotTwiceHere, \A r \in rows \ without : ~(r.net = id /\ r.session \in sessions)
      PROVE  NotTwiceHere'
    BY <1>3, <1>5, <1>6 DEF NotTwiceHere
<1> QED BY <1>1, <1>3, <1>4, <1>6

LEMMA ApplyNetSliceIs ==
    ASSUME NetFilesInv, NEW file \in Files, ApplyNetSlice(file), writes < MaxWrites
    PROVE  /\ DatabaseTypes' /\ writes' = writes + 1
           /\ \A r \in rows' \ rows : r.session \in file.sessions
           /\ NotTwiceHere => NotTwiceHere'
<1>1. PICK id \in NetIds \ DOMAIN nets :
          /\ nets' = [n \in DOMAIN nets \cup {id} |-> IF n = id THEN file.name ELSE nets[n]]
          /\ Writes(id, file.sessions, {})
    BY DEF ApplyNetSlice
<1>2. file.name \in Names /\ file.sessions \in SUBSET Sessions
    BY DEF Files
<1>3. /\ DOMAIN nets \subseteq DOMAIN nets' /\ DOMAIN nets' \subseteq NetIds
      /\ nets' \in [DOMAIN nets' -> Names] /\ id \in DOMAIN nets'
    BY <1>1, <1>2 DEF NetFilesInv, DatabaseTypes
<1>4. \A r \in rows : r.net # id
    BY <1>1 DEF NetFilesInv, DatabaseTypes
<1> QED BY <1>1, <1>2, <1>3, <1>4, WritesIs

(* Importing a net's file: a net is added, or the Merge window opens.         *)
LEMMA ImportNetSliceIs ==
    ASSUME NetFilesInv, NEW w \in Windows, NEW given, IsWin(given), given.merge = "none",
           given.asks = NoFile,
           NEW file \in Files, NEW checked, ImportNetSlice(w, given, file, checked),
           writes < MaxWrites
    PROVE  /\ DatabaseTypes' /\ writes' <= writes + 1
           /\ \A r \in rows' \ rows : r.session \in file.sessions
           /\ NotTwiceHere => NotTwiceHere'
           /\ \E rec : IsWin(rec) /\ Sets(w, rec) /\ rec.merge # "summary"
<1> DEFINE taken == FindNamed(nets, file.name) # {}
           chosen == [given EXCEPT !.merge = "choose", !.file = file, !.taken = taken]
           plain == [given EXCEPT !.merge = "none", !.file = NoFile, !.taken = FALSE]
<1>1. IsWin(chosen) /\ chosen.merge = "choose"
    BY DEF IsWin, WinFields
<1>2. IsWin(plain) /\ plain.merge = "none"
    BY DEF IsWin, WinFields
<1>3. \/ Sets(w, chosen) /\ UNCHANGED database
      \/ ApplyNetSlice(file) /\ Sets(w, RefreshNets(plain))
    BY DEF ImportNetSlice
<1> HIDE DEF chosen, plain
<1>4. CASE Sets(w, chosen) /\ UNCHANGED database
    <2>1. nets' = nets /\ rows' = rows /\ writes' = writes
        BY <1>4 DEF database
    <2>2. DatabaseTypes' /\ writes \in Nat
        BY <2>1 DEF NetFilesInv, DatabaseTypes
    <2> QED BY <1>1, <1>4, <2>1, <2>2 DEF NotTwiceHere
<1>5. CASE ApplyNetSlice(file) /\ Sets(w, RefreshNets(plain))
    <2>1. writes \in Nat
        BY DEF NetFilesInv, DatabaseTypes
    <2>2. IsWin(RefreshNets(plain)) /\ RefreshNets(plain).merge = "none"
        BY <1>2, BackOnList
    <2> QED BY <1>5, <2>1, <2>2, ApplyNetSliceIs
<1> QED BY <1>3, <1>4, <1>5

-----------------------------------------------------------------------------
(* The Import page.                                                         *)

LEMMA PagesKeep ==
    ASSUME NetFilesInv, NEW w \in Windows,
           ShowImportNetPage(w) \/ OpenSessionImport(w) \/ LeaveImportPage(w)
    PROVE  NetFilesInv'
<1>1. Free(w) /\ UNCHANGED <<database, pulling>> /\ win[w].merge = "none" /\ IsWin(win[w])
    BY DEF ShowImportNetPage, OpenSessionImport, LeaveImportPage, Free, NetFilesInv, WindowTypes
<1>2. w = Console => ~show_pull_modal
    BY <1>1, NoPullBesides
<1>3. PICK rec : IsWin(rec) /\ Sets(w, rec) /\ rec.merge = "none"
    <2>1. CASE ShowImportNetPage(w)
        <3> DEFINE rec == [win[w] EXCEPT !.page = "nets"]
        <3>1. IsWin(rec) /\ rec.merge = "none"
            BY <1>1 DEF IsWin, WinFields
        <3>2. Sets(w, rec)
            BY <2>1 DEF ShowImportNetPage
        <3> QED BY <3>1, <3>2
    <2>2. CASE OpenSessionImport(w)
        <3>1. PICK id \in DOMAIN win[w].nets :
                  Sets(w, [win[w] EXCEPT !.page = "sessions", !.target = id, !.name = win[w].nets[id]])
            BY <2>2 DEF OpenSessionImport
        <3> DEFINE rec == [win[w] EXCEPT !.page = "sessions", !.target = id, !.name = win[w].nets[id]]
        <3>2. IsWin(rec) /\ rec.merge = "none"
            BY <1>1 DEF IsWin, WinFields
        <3> QED BY <3>1, <3>2
    <2>3. CASE LeaveImportPage(w)
        BY <1>1, <2>3, BackOnList DEF LeaveImportPage
    <2> QED BY <2>1, <2>2, <2>3
<1> QED BY <1>1, <1>2, <1>3, WindowOnly

LEMMA ImportNetSliceKeeps ==
    ASSUME NetFilesInv, NEW w \in Windows,
           ImportSelectedNetSlice(w) \/ ImportSelectedNetSliceAnyway(w)
    PROVE  NetFilesInv' /\ (NotTwiceHere => NotTwiceHere')
<1>1. /\ Room(w) /\ UNCHANGED pulling /\ IsWin(win[w])
      /\ w = Console => ~show_pull_modal
    BY NoPullBesides DEF ImportSelectedNetSlice, ImportSelectedNetSliceAnyway, NetFilesInv, WindowTypes
<1>2. writes < MaxWrites /\ (show_pull_modal => writes + 1 < MaxWrites)
    BY <1>1, RoomLeft
<1>3. \E file \in Files : \E given, checked :
          /\ IsWin(given) /\ given.merge = "none" /\ given.asks = NoFile
          /\ ImportNetSlice(w, given, file, checked)
    <2>1. CASE ImportSelectedNetSlice(w)
        <3>1. win[w].merge = "none" /\ win[w].asks = NoFile
            BY <2>1 DEF ImportSelectedNetSlice, Free
        <3>2. PICK file \in NetExports : ImportNetSlice(w, win[w], file, FALSE)
            BY <2>1 DEF ImportSelectedNetSlice
        <3> QED BY <1>1, <3>1, <3>2, NetFilesAssumption
    <2>2. CASE ImportSelectedNetSliceAnyway(w)
        <3> DEFINE given == [win[w] EXCEPT !.merge = "none"]
        <3>1. IsWin(given) /\ given.merge = "none" /\ given.asks = NoFile
            BY <1>1, <2>2 DEF ImportSelectedNetSliceAnyway, IsWin, WinFields
        <3>2. ImportNetSlice(w, given, win[w].file, TRUE) /\ win[w].file \in Files
            BY <1>1, <2>2 DEF ImportSelectedNetSliceAnyway, IsWin
        <3> HIDE DEF given
        <3> QED BY <3>1, <3>2
    <2> QED BY <2>1, <2>2
<1>4. /\ DatabaseTypes' /\ writes' <= writes + 1
      /\ NotTwiceHere => NotTwiceHere'
      /\ \E rec : IsWin(rec) /\ Sets(w, rec) /\ rec.merge # "summary"
    BY <1>2, <1>3, ImportNetSliceIs
<1>5. show_pull_modal => writes' < MaxWrites
    BY <1>2, <1>4, NetFilesAssumption DEF NetFilesInv, DatabaseTypes
<1>6. Windows = {Console} => NotTwiceHere'
    BY <1>4 DEF NetFilesInv, OneWindow
<1>7. NetFilesInv'
    BY <1>1, <1>4, <1>5, <1>6, WindowStep
<1> QED BY <1>4, <1>7

-----------------------------------------------------------------------------
(* The Merge window.                                                        *)

(* A plan made now fits the sessions there are now.                          *)
LEMMA PlanFits ==
    ASSUME NotTwiceHere, NEW file, NEW id, NEW rec, rec.to = id, rec.plan = PlanNetMerge(file, id)
    PROVE  Fits(rec, rows) /\ DOMAIN rec.plan = file.sessions
<1>1. DOMAIN rec.plan = file.sessions
    BY DEF PlanNetMerge
<1>2. ASSUME NEW x \in file.sessions
      PROVE  /\ rec.plan[x].kind = "new" => \A r \in rows : ~(r.net = id /\ r.session = x)
             /\ rec.plan[x].kind = "differs" =>
                    \A r \in rows : r.net = id /\ r.session = x => r.id = rec.plan[x].local
    <2>1. CASE ~HasNetInstance(id, x)
        <3>1. rec.plan[x] = [kind |-> "new", local |-> <<>>, replace |-> FALSE]
            BY <2>1 DEF PlanNetMerge
        <3> QED BY <2>1, <3>1 DEF HasNetInstance
    <2>2. CASE HasNetInstance(id, x)
        <3> DEFINE here == CHOOSE r \in rows : r.net = id /\ r.session = x
        <3>1. here \in rows /\ here.net = id /\ here.session = x
            BY <2>2 DEF HasNetInstance
        <3>2. rec.plan[x] = [kind |-> IF here.is = "here" THEN "differs" ELSE "here",
                             local |-> here.id, replace |-> FALSE]
            BY <2>2 DEF PlanNetMerge
        <3> HIDE DEF here
        <3>3. rec.plan[x].kind # "new" /\ rec.plan[x].local = here.id
            BY <3>2
        <3>4. \A r \in rows : r.net = id /\ r.session = x => r = here
            BY <3>1 DEF NotTwiceHere
        <3> QED BY <3>3, <3>4
    <2> QED BY <2>1, <2>2
<1> QED BY <1>1, <1>2 DEF Fits

LEMMA ChooseMergeTargetKeeps ==
    ASSUME NetFilesInv, NEW w \in Windows, ChooseMergeTarget(w)
    PROVE  NetFilesInv'
<1>1. PICK id : Sets(w, [win[w] EXCEPT !.merge = "summary", !.to = id, !.plan = Plans(w, id)])
    BY DEF ChooseMergeTarget
<1> DEFINE rec == [win[w] EXCEPT !.merge = "summary", !.to = id, !.plan = Plans(w, id)]
<1>2. /\ UNCHANGED <<database, pulling>> /\ win[w].merge = "choose" /\ IsWin(win[w])
      /\ w = Console => ~show_pull_modal
    BY NoPullBesides DEF ChooseMergeTarget, NetFilesInv, WindowTypes
<1>3. /\ DOMAIN rec = WinFields /\ rec.merge = "summary" /\ rec.to = id
      /\ rec.plan = PlanNetMerge(win[w].file, id)
      /\ rec.file = win[w].file /\ rec.asks = win[w].asks /\ rec.page = win[w].page
    BY <1>2 DEF IsWin, WinFields, Plans
<1> HIDE DEF rec
<1>4. DOMAIN rec.plan = rec.file.sessions
    BY <1>3 DEF PlanNetMerge
<1>5. IsWin(rec)
    BY <1>2, <1>3, <1>4 DEF IsWin
<1>6. Windows = {Console} => Fits(rec, rows)
    BY <1>3, PlanFits DEF NetFilesInv, OneWindow
<1>7. Sets(w, rec)
    BY <1>1 DEF rec
<1> QED BY <1>2, <1>5, <1>6, <1>7, WindowOnly

LEMMA ToggleMergeReplaceKeeps ==
    ASSUME NetFilesInv, NEW w \in Windows, ToggleMergeReplace(w)
    PROVE  NetFilesInv'
<1>1. PICK x \in DOMAIN win[w].plan : win' = [win EXCEPT ![w].plan[x].replace = ~@]
    BY DEF ToggleMergeReplace
<1> DEFINE changed == [win[w].plan EXCEPT ![x].replace = ~@]
           rec == [win[w] EXCEPT !.plan = changed]
<1>2. /\ UNCHANGED <<database, pulling>> /\ win[w].merge = "summary" /\ IsWin(win[w])
      /\ w = Console => ~show_pull_modal
    BY NoPullBesides DEF ToggleMergeReplace, NetFilesInv, WindowTypes
<1>3. Sets(w, rec)
    BY <1>1 DEF Sets
<1>4. /\ DOMAIN changed = DOMAIN win[w].plan
      /\ \A y \in DOMAIN changed : changed[y].kind = win[w].plan[y].kind
                                  /\ changed[y].local = win[w].plan[y].local
    OBVIOUS
<1> HIDE DEF changed
<1>5. /\ DOMAIN rec = WinFields /\ rec.plan = changed /\ rec.merge = "summary"
      /\ rec.to = win[w].to /\ rec.file = win[w].file /\ rec.asks = win[w].asks
      /\ rec.page = win[w].page
    BY <1>2 DEF IsWin, WinFields
<1> HIDE DEF rec
<1>6. IsWin(rec)
    BY <1>2, <1>4, <1>5 DEF IsWin
<1>7. Fits(win[w], rows) => Fits(rec, rows)
    BY <1>4, <1>5 DEF Fits
<1>8. Windows = {Console} => Fits(rec, rows)
    BY <1>2, <1>7 DEF NetFilesInv, OneWindow
<1> QED BY <1>2, <1>3, <1>6, <1>8, WindowOnly

LEMMA NoMergeIs ==
    ASSUME NEW rec, IsWin(rec)
    PROVE  IsWin(NoMerge(rec)) /\ NoMerge(rec).merge = "none"
BY DEF IsWin, NoMerge, WinFields

LEMMA BackOutOfNetMergeKeeps ==
    ASSUME NetFilesInv, NEW w \in Windows, BackOutOfNetMerge(w)
    PROVE  NetFilesInv'
<1> DEFINE chosen == [win[w] EXCEPT !.merge = "choose"]
<1>1. /\ UNCHANGED <<database, pulling>> /\ win[w].merge # "none" /\ IsWin(win[w])
      /\ w = Console => ~show_pull_modal
    BY NoPullBesides DEF BackOutOfNetMerge, NetFilesInv, WindowTypes
<1>2. IsWin(chosen) /\ chosen.merge = "choose"
    BY <1>1 DEF IsWin, WinFields
<1>3. IsWin(NoMerge(win[w])) /\ NoMerge(win[w]).merge = "none"
    BY <1>1, NoMergeIs
<1>4. Sets(w, chosen) \/ Sets(w, NoMerge(win[w]))
    BY DEF BackOutOfNetMerge
<1> HIDE DEF chosen
<1> QED BY <1>1, <1>2, <1>3, <1>4, WindowOnly

(* What is there of the sessions that the plan adds is replaced by them.      *)
LEMMA ConfirmNetMergeKeeps ==
    ASSUME NetFilesInv, NEW w \in Windows, ConfirmNetMerge(w)
    PROVE  NetFilesInv'
<1> DEFINE plan == win[w].plan
           to == win[w].to
           back == RefreshNets(NoMerge(win[w]))
<1>1. /\ UNCHANGED pulling /\ win[w].merge = "summary" /\ IsWin(win[w]) /\ Room(w)
      /\ w = Console => ~show_pull_modal
    BY NoPullBesides DEF ConfirmNetMerge, NetFilesInv, WindowTypes
<1>2. /\ IsWin(NoMerge(win[w])) /\ NoMerge(win[w]).merge = "none"
      /\ IsWin(back) /\ back.merge = "none"
    BY <1>1, NoMergeIs, BackOnList
<1>3. CASE to \in DOMAIN nets
    <2> DEFINE added == {x \in DOMAIN plan : plan[x].kind = "new"} \cup Replaced(plan)
               without == {r \in rows : \E x \in Replaced(plan) : r.id = plan[x].local}
    <2>1. /\ Writes(to, added, without) /\ UNCHANGED nets /\ Sets(w, back)
        BY <1>3 DEF ConfirmNetMerge, ApplyNetMerge
    <2>2. writes < MaxWrites /\ (show_pull_modal => writes + 1 < MaxWrites)
        BY <1>1, RoomLeft
    <2>3. added \in SUBSET Sessions
        <3>1. DOMAIN plan \subseteq Sessions
            BY <1>1 DEF IsWin, Files
        <3> QED BY <3>1 DEF Replaced
    <2>4. Windows = {Console} => \A r \in rows \ without : ~(r.net = to /\ r.session \in added)
        <3>1. Windows = {Console} => Fits(win[w], rows)
            BY <1>1 DEF NetFilesInv, OneWindow
        <3>2. ASSUME Fits(win[w], rows), NEW r \in rows, r.net = to, r.session \in added
              PROVE  r \in without
            <4>1. CASE plan[r.session].kind = "new" /\ r.session \in DOMAIN plan
                BY <3>2, <4>1 DEF Fits
            <4>2. CASE r.session \in Replaced(plan)
                <5>1. r.session \in DOMAIN plan /\ plan[r.session].kind = "differs"
                    BY <4>2 DEF Replaced
                <5>2. r.id = plan[r.session].local
                    BY <3>2, <5>1 DEF Fits
                <5> QED BY <4>2, <5>2
            <4> QED BY <3>2, <4>1, <4>2
        <3> QED BY <3>1, <3>2
    <2> HIDE DEF added, without
    <2>5. /\ DatabaseTypes' /\ writes' = writes + 1
          /\ (/\ NotTwiceHere
              /\ \A r \in rows \ without : ~(r.net = to /\ r.session \in added))
                 => NotTwiceHere'
        <3>1. /\ DOMAIN nets \subseteq DOMAIN nets' /\ DOMAIN nets' \subseteq NetIds
              /\ nets' \in [DOMAIN nets' -> Names] /\ to \in DOMAIN nets'
            BY <1>3, <2>1 DEF NetFilesInv, DatabaseTypes
        <3>2. Writes(to, added, without) /\ writes < MaxWrites
            BY <2>1, <2>2
        <3>3. PICK id, sessions, gone : id = to /\ sessions = added /\ gone = without
            OBVIOUS
        <3>4. /\ Writes(id, sessions, gone) /\ sessions \in SUBSET Sessions
              /\ id \in DOMAIN nets'
            BY <2>3, <3>1, <3>2, <3>3
        <3> HIDE DEF to, plan
        <3>5. /\ DatabaseTypes' /\ writes' = writes + 1
              /\ (/\ NotTwiceHere
                  /\ \A r \in rows \ gone : ~(r.net = id /\ r.session \in sessions))
                     => NotTwiceHere'
            BY <3>1, <3>2, <3>4, WritesIs
        <3> QED BY <3>3, <3>5
    <2>6. Windows = {Console} => NotTwiceHere'
        BY <2>4, <2>5 DEF NetFilesInv, OneWindow
    <2> HIDE DEF back
    <2> QED BY <1>1, <1>2, <2>1, <2>2, <2>5, <2>6, WindowStep
<1>4. CASE to \notin DOMAIN nets
    <2>1. Sets(w, NoMerge(win[w])) /\ UNCHANGED database
        BY <1>4 DEF ConfirmNetMerge
    <2> QED BY <1>1, <1>2, <2>1, WindowOnly
<1> QED BY <1>3, <1>4

-----------------------------------------------------------------------------
(* A session's file.                                                        *)

LEMMA ImportSessionKeeps ==
    ASSUME NetFilesInv, NEW w \in Windows, NEW file \in SessionExports, NEW checked,
           ImportSession(w, file, checked), UNCHANGED pulling, Room(w),
           win[w].merge = "none", w = Console => ~show_pull_modal
    PROVE  NetFilesInv' /\ (NotTwiceHere => NotTwiceHere')
<1> DEFINE asks == [win[w] EXCEPT !.asks = file]
           quiet == [win[w] EXCEPT !.asks = NoFile]
           to == win[w].target
<1>1. /\ IsWin(win[w]) /\ file \in Files /\ \E x \in Sessions : file.sessions = {x}
    BY NetFilesAssumption DEF NetFilesInv, WindowTypes
<1>2. IsWin(asks) /\ asks.merge = "none" /\ IsWin(quiet) /\ quiet.merge = "none"
    BY <1>1 DEF IsWin, WinFields
<1>3. IsWin(RefreshNets(quiet)) /\ RefreshNets(quiet).merge = "none"
    BY <1>2, BackOnList
<1>4. \/ (Sets(w, asks) \/ Sets(w, quiet)) /\ UNCHANGED database
      \/ /\ Importable(to, file.sessions) # {} /\ Writes(to, file.sessions, {}) /\ UNCHANGED nets
         /\ Sets(w, RefreshNets(quiet))
    BY DEF ImportSession
<1> HIDE DEF asks, quiet
<1>5. CASE (Sets(w, asks) \/ Sets(w, quiet)) /\ UNCHANGED database
    <2>1. NetFilesInv'
        BY <1>2, <1>5, WindowOnly
    <2> QED BY <1>5, <2>1 DEF database, NotTwiceHere
<1>6. CASE /\ Importable(to, file.sessions) # {} /\ Writes(to, file.sessions, {}) /\ UNCHANGED nets
           /\ Sets(w, RefreshNets(quiet))
    <2>1. to \in DOMAIN nets /\ \E x \in file.sessions : ~HasNetInstance(to, x)
        BY <1>6 DEF Importable
    <2>2. \A r \in rows : ~(r.net = to /\ r.session \in file.sessions)
        BY <1>1, <2>1 DEF HasNetInstance
    <2>3. writes < MaxWrites /\ (show_pull_modal => writes + 1 < MaxWrites)
        BY RoomLeft
    <2>4. /\ DOMAIN nets \subseteq DOMAIN nets' /\ DOMAIN nets' \subseteq NetIds
          /\ nets' \in [DOMAIN nets' -> Names] /\ to \in DOMAIN nets'
        BY <1>6, <2>1 DEF NetFilesInv, DatabaseTypes
    <2>5. PICK id, sessions, none : id = to /\ sessions = file.sessions /\ none = {}
        OBVIOUS
    <2>6. /\ Writes(id, sessions, none) /\ sessions \in SUBSET Sessions /\ id \in DOMAIN nets'
          /\ \A r \in rows \ none : ~(r.net = id /\ r.session \in sessions)
        <3>1. file.sessions \in SUBSET Sessions
            BY <1>1 DEF Files
        <3> QED BY <1>6, <2>2, <2>4, <2>5, <3>1
    <2> HIDE DEF to
    <2>7. DatabaseTypes' /\ writes' = writes + 1 /\ (NotTwiceHere => NotTwiceHere')
        <3>1. writes < MaxWrites /\ sessions \in SUBSET Sessions /\ Writes(id, sessions, none)
            BY <2>3, <2>6
        <3>2. /\ DOMAIN nets \subseteq DOMAIN nets' /\ DOMAIN nets' \subseteq NetIds
              /\ nets' \in [DOMAIN nets' -> Names] /\ id \in DOMAIN nets'
            BY <2>4, <2>6
        <3>3. \A r \in rows \ none : ~(r.net = id /\ r.session \in sessions)
            BY <2>6
        <3> QED BY <3>1, <3>2, <3>3, WritesIs
    <2>8. Windows = {Console} => NotTwiceHere'
        BY <2>7 DEF NetFilesInv, OneWindow
    <2>9. NetFilesInv'
        BY <1>3, <1>6, <2>3, <2>7, <2>8, WindowStep
    <2> QED BY <2>7, <2>9
<1> QED BY <1>4, <1>5, <1>6

LEMMA SessionFilesKeep ==
    ASSUME NetFilesInv, NEW w \in Windows,
           ImportSelectedSession(w) \/ ImportSelectedSessionAnyway(w) \/ CancelConfirmPrompt(w)
    PROVE  NetFilesInv' /\ (NotTwiceHere => NotTwiceHere')
<1>1. IsWin(win[w])
    BY DEF NetFilesInv, WindowTypes
<1>2. CASE ImportSelectedSession(w)
    <2>1. /\ win[w].merge = "none" /\ Room(w) /\ UNCHANGED pulling
          /\ w = Console => ~show_pull_modal
        BY <1>2, NoPullBesides DEF ImportSelectedSession, Free
    <2>2. PICK file \in SessionExports : ImportSession(w, file, FALSE)
        BY <1>2 DEF ImportSelectedSession
    <2> QED BY <2>1, <2>2, ImportSessionKeeps
<1>3. CASE ImportSelectedSessionAnyway(w) /\ win[w].merge = "none"
    <2>1. /\ Room(w) /\ UNCHANGED pulling /\ ImportSession(w, win[w].asks, TRUE)
          /\ win[w].asks \in SessionExports
          /\ w = Console => ~show_pull_modal
        BY <1>1, <1>3, NoPullBesides DEF ImportSelectedSessionAnyway, IsWin
    <2> QED BY <1>3, <2>1, ImportSessionKeeps
<1>4. CASE CancelConfirmPrompt(w) /\ win[w].merge = "none"
    <2> DEFINE quiet == [win[w] EXCEPT !.asks = NoFile]
    <2>1. IsWin(quiet) /\ quiet.merge = "none"
        BY <1>1, <1>4 DEF IsWin, WinFields
    <2>2. /\ Sets(w, quiet) /\ UNCHANGED <<database, pulling>>
          /\ w = Console => ~show_pull_modal
        BY <1>4, NoPullBesides DEF CancelConfirmPrompt
    <2> HIDE DEF quiet
    <2>3. NetFilesInv'
        BY <2>1, <2>2, WindowOnly
    <2> QED BY <2>2, <2>3 DEF database, NotTwiceHere
<1>5. win[w].asks # NoFile => win[w].merge = "none"
    BY <1>1 DEF IsWin
<1> QED BY <1>2, <1>3, <1>4, <1>5 DEF ImportSelectedSessionAnyway, CancelConfirmPrompt

-----------------------------------------------------------------------------
(* The Pull window and its thread.                                          *)

LEMMA PullStep ==
    ASSUME NetFilesInv, UNCHANGED <<database, win>>, PullInv',
           show_pull_modal' =>
               \/ show_pull_modal
               \/ win[Console].merge = "none" /\ win[Console].asks = NoFile /\ writes < MaxWrites
    PROVE  NetFilesInv'
<1>1. nets' = nets /\ rows' = rows /\ writes' = writes /\ win' = win
    BY DEF database
<1>2. DatabaseTypes' /\ WindowTypes'
    BY <1>1 DEF NetFilesInv, DatabaseTypes, WindowTypes
<1>3. Windowed'
    BY <1>1 DEF NetFilesInv, Windowed
<1>4. OneWindow'
    BY <1>1 DEF NetFilesInv, OneWindow, NotTwiceHere
<1> QED BY <1>2, <1>3, <1>4 DEF NetFilesInv

LEMMA UpstreamIs ==
    \A net \in DOMAIN Upstream : net \in Names /\ Upstream[net] \in SUBSET Sessions
BY NetFilesAssumption DEF Range

(* The thread posts a result of the window's present step.                   *)
LEMMA PostsIs ==
    ASSUME NetFilesInv, puller.at # "none", NEW what \in {"nets", "files"}, NEW ok \in BOOLEAN,
           NEW files \in SUBSET Sessions, puller.at # "listing" => files \subseteq Upstream[puller.net],
           what = "files" => puller.at # "listing",
           Posts(what, ok, files), UNCHANGED pull
    PROVE  /\ puller' = NoThread /\ posted' \in Seq(Results) /\ Fetched' /\ Waiting'
           /\ pull.stage = (IF puller.at = "listing" THEN "listing" ELSE "fetching")
           /\ Len(posted') > Len(posted)
<1> DEFINE result == [what |-> what, generation |-> puller.generation, ok |-> ok,
                      net |-> puller.net, files |-> files]
<1>1. /\ puller' = NoThread /\ posted' = Append(posted, result) /\ posted \in Seq(Results)
    BY DEF Posts, NetFilesInv, PullInv, PullTypes
<1>2. /\ puller.generation = pull.generation /\ puller.net = pull.net
      /\ pull.stage = (IF puller.at = "listing" THEN "listing" ELSE "fetching")
      /\ pull.stage = "fetching" => pull.net \in DOMAIN Upstream
      /\ puller.generation \in Nat /\ puller.net \in Names \cup {NoFile}
    BY DEF NetFilesInv, PullInv, PullTypes, Waiting, Fetched
<1>3. files \in SUBSET Sessions /\ (puller.at # "listing" => files \subseteq Upstream[pull.net])
    BY <1>2, UpstreamIs
<1>4. result \in Results
    BY <1>2, <1>3 DEF Results
<1>5. /\ result.generation = pull.generation /\ result.net = pull.net /\ result.files = files
      /\ result.what = what
    BY <1>2
<1> HIDE DEF result
<1>6. /\ posted' \in Seq(Results) /\ Len(posted') = Len(posted) + 1 /\ Len(posted) \in Nat
      /\ \A i \in 1..Len(posted) : posted'[i] = posted[i]
      /\ posted'[Len(posted) + 1] = result
    BY <1>1, <1>4, AppendProperties, LenProperties
<1>7. ASSUME NEW i \in 1..Len(posted')
      PROVE  /\ posted'[i].generation <= pull.generation
             /\ posted'[i].generation = pull.generation => puller'.at = "none"
             /\ posted'[i].generation = pull.generation /\ posted'[i].what = "files"
                   /\ pull.stage = "fetching"
                       => posted'[i].net = pull.net /\ posted'[i].files \subseteq Upstream[pull.net]
    <2>1. CASE i \in 1..Len(posted)
        BY <1>1, <1>6, <2>1 DEF NetFilesInv, PullInv, Fetched, NoThread
    <2>2. CASE i = Len(posted) + 1
        BY <1>1, <1>2, <1>3, <1>5, <1>6, <2>2 DEF NoThread
    <2> QED BY <1>6, <2>1, <2>2
<1>8. Fetched'
    BY <1>2, <1>7 DEF Fetched
<1>9. Waiting'
    BY <1>1 DEF Waiting, NoThread
<1> QED BY <1>1, <1>2, <1>6, <1>8, <1>9

LEMMA ThreadKeeps ==
    ASSUME NetFilesInv, ListsNets \/ ExportsFiles \/ CopiesFiles \/ PullerFails
    PROVE  /\ NetFilesInv' /\ Len(posted') >= Len(posted) /\ UNCHANGED <<database, win, pull>>
           /\ dir' # dir => pull.sessions /\ pull.stage = "fetching"
<1>1. UNCHANGED <<database, win, pull>> /\ puller.at # "none"
    BY DEF ListsNets, ExportsFiles, CopiesFiles, PullerFails, PullerOnly, MayFail
<1>2. /\ pull.stage = (IF puller.at = "listing" THEN "listing" ELSE "fetching")
      /\ puller.at \in {"listing", "exporting", "copying"} /\ puller.net = pull.net
      /\ pull.stage = "fetching" => Upstream[puller.net] \in SUBSET Sessions
    BY <1>1, UpstreamIs DEF NetFilesInv, PullInv, PullTypes, Waiting, Fetched
<1>3. /\ dir' \cup stray' \subseteq Sessions
      /\ dir' # dir => pull.sessions /\ pull.stage = "fetching"
    <2>1. /\ stray' = stray
          /\ \/ dir' = dir
             \/ /\ pull.sessions /\ puller.at = "copying"
                /\ dir' \subseteq dir \cup Upstream[puller.net]
        BY DEF ListsNets, ExportsFiles, CopiesFiles, PullerFails, PullerOnly, Copied
    <2> QED BY <1>2, <2>1 DEF NetFilesInv, PullInv, PullTypes
<1>4. /\ puller' \in [at : {"none", "listing", "exporting", "copying"}, generation : Nat,
                      net : Names \cup {NoFile}]
      /\ posted' \in Seq(Results) /\ Fetched' /\ Waiting' /\ Len(posted') >= Len(posted)
    <2>0. PICK none : none = {}
        OBVIOUS
    <2>1. \/ Posts("nets", TRUE, none) \/ Posts("nets", FALSE, none)
          \/ puller.at # "listing" /\ Posts("files", TRUE, none)
          \/ puller.at # "listing" /\ Posts("files", FALSE, none)
          \/ puller.at # "listing" /\ Posts("files", TRUE, Upstream[puller.net])
          \/ /\ puller.at = "exporting" /\ puller' = [puller EXCEPT !.at = "copying"]
             /\ UNCHANGED posted
        <3>1. CASE ListsNets
            BY <2>0, <3>1 DEF ListsNets
        <3>2. CASE ExportsFiles
            BY <2>0, <3>2 DEF ExportsFiles
        <3>3. CASE CopiesFiles
            BY <2>0, <3>3 DEF CopiesFiles
        <3>4. CASE PullerFails
            BY <2>0, <3>4 DEF PullerFails
        <3> QED BY <3>1, <3>2, <3>3, <3>4
    <2>2. CASE ~(puller.at = "exporting" /\ puller' = [puller EXCEPT !.at = "copying"]
                 /\ UNCHANGED posted)
        <3>1. /\ puller' = NoThread /\ posted' \in Seq(Results) /\ Fetched' /\ Waiting'
              /\ Len(posted') > Len(posted)
            <4>0. none \in SUBSET Sessions /\ none \subseteq Upstream[puller.net]
                BY <2>0
            <4>1. CASE Posts("nets", TRUE, none)
                BY <1>1, <4>0, <4>1, PostsIs
            <4>2. CASE Posts("nets", FALSE, none)
                BY <1>1, <4>0, <4>2, PostsIs
            <4>3. CASE puller.at # "listing" /\ Posts("files", TRUE, none)
                BY <1>1, <4>0, <4>3, PostsIs
            <4>4. CASE puller.at # "listing" /\ Posts("files", FALSE, none)
                BY <1>1, <4>0, <4>4, PostsIs
            <4>5. CASE puller.at # "listing" /\ Posts("files", TRUE, Upstream[puller.net])
                BY <1>1, <1>2, <4>5, PostsIs
            <4> QED BY <2>1, <2>2, <4>1, <4>2, <4>3, <4>4, <4>5
        <3>2. Len(posted) \in Nat /\ Len(posted') \in Nat
            BY <3>1, LenProperties DEF NetFilesInv, PullInv, PullTypes
        <3> QED BY <3>1, <2>0, <3>2 DEF NoThread
    <2>3. CASE /\ puller.at = "exporting" /\ puller' = [puller EXCEPT !.at = "copying"]
               /\ UNCHANGED posted
        <3>1. /\ puller' \in [at : {"none", "listing", "exporting", "copying"}, generation : Nat,
                             net : Names \cup {NoFile}]
              /\ Waiting'
            BY <1>1, <2>3 DEF NetFilesInv, PullInv, PullTypes, Waiting
        <3>2. Len(posted) \in Nat
            BY LenProperties DEF NetFilesInv, PullInv, PullTypes
        <3>3. posted' \in Seq(Results) /\ Fetched' /\ Len(posted') >= Len(posted)
            BY <1>1, <2>3, <3>2 DEF NetFilesInv, PullInv, PullTypes, Fetched
        <3> QED BY <3>1, <3>3
    <2> QED BY <2>2, <2>3
<1>5. PullInv'
    BY <1>1, <1>3, <1>4 DEF NetFilesInv, PullInv, PullTypes
<1>6. NetFilesInv'
    BY <1>1, <1>5, PullStep DEF show_pull_modal
<1> QED BY <1>1, <1>3, <1>4, <1>6

LEMMA FirstIs ==
    ASSUME PullTypes, posted # << >>
    PROVE  /\ 1 \in 1..Len(posted) /\ Head(posted) = posted[1] /\ Head(posted) \in Results
           /\ Tail(posted) \in Seq(Results) /\ Len(Tail(posted)) = Len(posted) - 1
           /\ \A i \in 1..Len(Tail(posted)) :
                  i + 1 \in 1..Len(posted) /\ Tail(posted)[i] = posted[i + 1]
<1>1. posted \in Seq(Results) /\ Len(posted) \in Nat
    BY LenProperties DEF PullTypes
<1>2. /\ Head(posted) \in Results /\ Tail(posted) \in Seq(Results)
      /\ Len(Tail(posted)) = Len(posted) - 1
      /\ \A i \in 1..Len(Tail(posted)) : Tail(posted)[i] = posted[i + 1]
    BY <1>1, HeadTailProperties
<1>3. Len(posted) # 0
    BY <1>1, EmptySeq
<1> QED BY <1>1, <1>2, <1>3

(* The window's step has changed: what is posted is of earlier ones.          *)
LEMMA NewStep ==
    ASSUME NetFilesInv, pull'.generation > pull.generation, pull' \in
               [stage : {"none", "listing", "choosing", "fetching", "gone"}, sessions : BOOLEAN,
                generation : Nat, net : Names \cup {NoFile}],
           puller' \in [at : {"none", "listing", "exporting", "copying"}, generation : Nat,
                        net : Names \cup {NoFile}],
           posted' = posted, dir' \cup stray' \subseteq Sessions, Waiting',
           pull'.stage = "fetching" => pull'.net \in DOMAIN Upstream
    PROVE  PullInv'
<1>1. PullTypes'
    BY DEF NetFilesInv, PullInv, PullTypes
<1>2. \A i \in 1..Len(posted) : posted[i].generation \in Nat
    <2>1. \A i \in 1..Len(posted) : posted[i] \in Results
        BY ElementOfSeq DEF NetFilesInv, PullInv, PullTypes
    <2> QED BY <2>1 DEF Results
<1>3. pull.generation \in Nat /\ pull'.generation \in Nat
    BY DEF NetFilesInv, PullInv, PullTypes
<1>4. Fetched'
    BY <1>2, <1>3 DEF NetFilesInv, PullInv, Fetched
<1> QED BY <1>1, <1>4 DEF PullInv

LEMMA OpenPullWindowKeeps ==
    ASSUME NetFilesInv, OpenPullWindow
    PROVE  NetFilesInv'
<1>1. /\ UNCHANGED <<database, win>> /\ UNCHANGED <<posted, dir, stray>> /\ pull.stage = "none"
      /\ win[Console].merge = "none" /\ win[Console].asks = NoFile
      /\ pull' = [stage |-> "listing", sessions |-> win[Console].page = "sessions",
                  generation |-> pull.generation + 1, net |-> NoFile]
      /\ puller' = [at |-> "listing", generation |-> pull'.generation, net |-> NoFile]
    BY DEF OpenPullWindow, Free
<1>2. writes < MaxWrites
    BY <1>1, RoomLeft, NetFilesAssumption DEF OpenPullWindow, show_pull_modal
<1>3. /\ pull' \in [stage : {"none", "listing", "choosing", "fetching", "gone"}, sessions : BOOLEAN,
                     generation : Nat, net : Names \cup {NoFile}]
      /\ puller' \in [at : {"none", "listing", "exporting", "copying"}, generation : Nat,
                       net : Names \cup {NoFile}]
      /\ pull.generation \in Nat /\ pull'.generation > pull.generation
    BY <1>1 DEF NetFilesInv, PullInv, PullTypes
<1>4. dir' \cup stray' \subseteq Sessions
    BY <1>1 DEF NetFilesInv, PullInv, PullTypes
<1>5. PullInv'
    BY <1>1, <1>3, <1>4, NewStep DEF Waiting
<1> QED BY <1>1, <1>2, <1>5, PullStep

LEMMA ChoosePullNetKeeps ==
    ASSUME NetFilesInv, ChoosePullNet
    PROVE  NetFilesInv'
<1>1. PICK net \in DOMAIN Upstream :
          /\ pull' = [pull EXCEPT !.stage = "fetching", !.generation = @ + 1, !.net = net]
          /\ puller' = [at |-> "exporting", generation |-> pull'.generation, net |-> net]
    BY DEF ChoosePullNet
<1>2. /\ UNCHANGED <<database, win>> /\ posted' = posted /\ pull.stage = "choosing"
      /\ IF pull.sessions THEN RemoveAll ELSE UNCHANGED <<dir, stray>>
    BY DEF ChoosePullNet
<1>3. /\ pull' \in [stage : {"none", "listing", "choosing", "fetching", "gone"}, sessions : BOOLEAN,
                     generation : Nat, net : Names \cup {NoFile}]
      /\ puller' \in [at : {"none", "listing", "exporting", "copying"}, generation : Nat,
                       net : Names \cup {NoFile}]
      /\ pull.generation \in Nat /\ pull'.generation > pull.generation /\ pull'.net = net
    <2>1. pull.generation \in Nat /\ pull.sessions \in BOOLEAN /\ net \in Names
        BY <1>1, UpstreamIs DEF NetFilesInv, PullInv, PullTypes
    <2>2. pull' = [stage |-> "fetching", sessions |-> pull.sessions,
                   generation |-> pull.generation + 1, net |-> net]
        BY <1>1 DEF NetFilesInv, PullInv, PullTypes
    <2> QED BY <1>1, <2>1, <2>2
<1>4. dir' \cup stray' \subseteq Sessions
    BY <1>2 DEF NetFilesInv, PullInv, PullTypes, RemoveAll
<1>5. Waiting'
    BY <1>1, <1>3 DEF Waiting, NetFilesInv, PullInv, PullTypes
<1>6. PullInv'
    BY <1>2, <1>3, <1>4, <1>5, NewStep
<1> QED BY <1>2, <1>6, PullStep DEF show_pull_modal

LEMMA ClosePullWindowKeeps ==
    ASSUME NetFilesInv, ClosePullWindow
    PROVE  NetFilesInv'
<1>1. /\ UNCHANGED <<database, win>> /\ posted' = posted /\ puller' = NoThread
      /\ pull' = [CloseTheWindow EXCEPT !.generation = @ + 1] /\ show_pull_modal
      /\ RemovePullDirectory
    BY DEF ClosePullWindow
<1>2. /\ pull' \in [stage : {"none", "listing", "choosing", "fetching", "gone"}, sessions : BOOLEAN,
                     generation : Nat, net : Names \cup {NoFile}]
      /\ pull.generation \in Nat /\ pull'.generation > pull.generation /\ pull'.stage = "none"
    <2>1. pull.generation \in Nat /\ pull.sessions \in BOOLEAN
        BY DEF NetFilesInv, PullInv, PullTypes
    <2>2. pull' = [stage |-> "none", sessions |-> pull.sessions,
                   generation |-> pull.generation + 1, net |-> NoFile]
        BY <1>1 DEF NetFilesInv, PullInv, PullTypes, CloseTheWindow
    <2> QED BY <2>1, <2>2
<1>3. /\ puller' \in [at : {"none", "listing", "exporting", "copying"}, generation : Nat,
                       net : Names \cup {NoFile}]
      /\ Waiting'
    BY <1>1 DEF NoThread, Waiting
<1>4. dir' \cup stray' \subseteq Sessions
    BY <1>1 DEF NetFilesInv, PullInv, PullTypes, RemovePullDirectory, RemoveAll
<1>5. PullInv'
    BY <1>1, <1>2, <1>3, <1>4, NewStep
<1> QED BY <1>1, <1>2, <1>5, PullStep

(* The window takes a posted result: it goes on, or closes.                  *)
LEMMA TakesIs ==
    ASSUME NetFilesInv, posted # << >>, posted' = Tail(posted), UNCHANGED puller,
           dir' \cup stray' \subseteq Sessions,
           \/ pull' = pull
           \/ /\ Head(posted).generation = pull.generation
              /\ pull' = CloseTheWindow \/ pull' = [pull EXCEPT !.stage = "choosing"]
    PROVE  PullInv'
<1>1. PullTypes /\ Waiting /\ Fetched
    BY DEF NetFilesInv, PullInv
<1>2. PullTypes'
    <2>1. posted' \in Seq(Results)
        BY <1>1, FirstIs
    <2>2. pull' \in [stage : {"none", "listing", "choosing", "fetching", "gone"}, sessions : BOOLEAN,
                     generation : Nat, net : Names \cup {NoFile}]
        BY <1>1 DEF PullTypes, CloseTheWindow
    <2> QED BY <1>1, <2>1, <2>2 DEF PullTypes
<1>3. pull' # pull => puller.at = "none" /\ pull'.stage # "fetching"
    <2>1. Head(posted) = posted[1] /\ 1 \in 1..Len(posted)
        BY <1>1, FirstIs
    <2> QED BY <1>1, <2>1 DEF Fetched, PullTypes, CloseTheWindow
<1>4. pull'.generation = pull.generation
    BY <1>1 DEF PullTypes, CloseTheWindow
<1>5. Waiting'
    BY <1>1, <1>3 DEF Waiting
<1>6. Fetched'
    <2>1. ASSUME NEW i \in 1..Len(posted')
          PROVE  i + 1 \in 1..Len(posted) /\ posted'[i] = posted[i + 1]
        BY <1>1, FirstIs
    <2> QED BY <1>1, <1>3, <1>4, <2>1 DEF Fetched
<1> QED BY <1>2, <1>5, <1>6 DEF PullInv

LEMMA FinishPullListKeeps ==
    ASSUME NetFilesInv, FinishPullList
    PROVE  NetFilesInv'
<1>1. /\ UNCHANGED <<database, win>> /\ UNCHANGED <<puller, dir, stray>> /\ posted # << >>
      /\ posted' = Tail(posted)
      /\ \/ pull' = pull
         \/ /\ Head(posted).generation = pull.generation /\ pull.stage = "listing"
            /\ pull' = CloseTheWindow \/ pull' = [pull EXCEPT !.stage = "choosing"]
    BY DEF FinishPullList, Awaited
<1>2. dir' \cup stray' \subseteq Sessions /\ (show_pull_modal' => show_pull_modal)
    BY <1>1 DEF NetFilesInv, PullInv, PullTypes, CloseTheWindow, show_pull_modal
<1>3. PullInv'
    BY <1>1, <1>2, TakesIs
<1> QED BY <1>1, <1>2, <1>3, PullStep

(* A pull's files are in: the window closes, Console's record is rec, and the *)
(* database what it may.                                                    *)
LEMMA PulledStep ==
    ASSUME NetFilesInv, PullInv', pull'.stage = "none", NEW rec, IsWin(rec), Sets(Console, rec),
           rec.merge # "summary", DatabaseTypes', NotTwiceHere => NotTwiceHere'
    PROVE  NetFilesInv'
<1>1. WindowTypes' /\ win'[Console] = rec
    BY SetsIs, NetFilesAssumption DEF NetFilesInv
<1>2. Windowed'
    BY DEF Windowed, show_pull_modal
<1>3. OneWindow'
    BY <1>1 DEF NetFilesInv, OneWindow
<1> QED BY <1>1, <1>2, <1>3 DEF NetFilesInv

LEMMA MissingAdded ==
    ASSUME NetFilesInv, NEW id \in DOMAIN nets, NEW sessions \in SUBSET Sessions,
           Writes(id, sessions, {}), UNCHANGED nets, writes < MaxWrites,
           \A x \in sessions : ~HasNetInstance(id, x)
    PROVE  /\ DatabaseTypes' /\ (NotTwiceHere => NotTwiceHere')
           /\ \A r \in rows' \ rows : r.net = id /\ r.session \in sessions
<1>1. /\ DOMAIN nets \subseteq DOMAIN nets' /\ DOMAIN nets' \subseteq NetIds
      /\ nets' \in [DOMAIN nets' -> Names] /\ id \in DOMAIN nets'
    BY DEF NetFilesInv, DatabaseTypes
<1>2. PICK none : none = {}
    OBVIOUS
<1>3. Writes(id, sessions, none)
    BY <1>2
<1>4. \A r \in rows \ none : ~(r.net = id /\ r.session \in sessions)
    BY DEF HasNetInstance
<1> QED BY <1>1, <1>3, <1>4, WritesIs

(* ImportPulledSessions adds the files' sessions to the page's net, each that *)
(* is missing there.                                                        *)
LEMMA ImportPulledSessionsIs ==
    ASSUME NetFilesInv, PullInv', pull'.stage = "none", NEW files \in SUBSET Sessions,
           ImportPulledSessions(files), writes < MaxWrites, win[Console].merge = "none",
           show_pull_modal
    PROVE  /\ NetFilesInv' /\ (NotTwiceHere => NotTwiceHere')
           /\ \A r \in rows' \ rows : r.net = win[Console].target /\ r.session \in files
<1> DEFINE target == win[Console].target
           added == Importable(target, files \cap dir)
<1>1. IsWin(win[Console])
    BY NetFilesAssumption DEF NetFilesInv, WindowTypes
<1>2. IsWin(RefreshNets(win[Console])) /\ RefreshNets(win[Console]).merge = "none"
    BY <1>1, BackOnList
<1>3. CASE UNCHANGED <<database, win>>
    <2>1. rows' = rows
        BY <1>3 DEF database
    <2>2. NetFilesInv'
        BY <1>3, PullStep
    <2> QED BY <2>1, <2>2 DEF NotTwiceHere
<1>4. CASE UNCHANGED database /\ Sets(Console, RefreshNets(win[Console]))
    <2>1. nets' = nets /\ rows' = rows /\ writes' = writes
        BY <1>4 DEF database
    <2>2. DatabaseTypes' /\ (NotTwiceHere => NotTwiceHere')
        BY <2>1 DEF NetFilesInv, DatabaseTypes, NotTwiceHere
    <2> QED BY <1>2, <1>4, <2>1, <2>2, PulledStep
<1>5. CASE /\ target \in DOMAIN nets /\ Writes(target, added, {}) /\ UNCHANGED nets
           /\ Sets(Console, RefreshNets(win[Console]))
    <2>1. added \subseteq files /\ \A x \in added : ~HasNetInstance(target, x)
        BY <1>5 DEF Importable
    <2>2. PICK id, sessions : id = target /\ sessions = added
        OBVIOUS
    <2>3. /\ Writes(id, sessions, {}) /\ UNCHANGED nets /\ id \in DOMAIN nets
          /\ sessions \in SUBSET Sessions /\ \A x \in sessions : ~HasNetInstance(id, x)
        BY <1>5, <2>1, <2>2
    <2> HIDE DEF target, added
    <2>4. /\ DatabaseTypes' /\ (NotTwiceHere => NotTwiceHere')
          /\ \A r \in rows' \ rows : r.net = id /\ r.session \in sessions
        BY <2>3, MissingAdded
    <2>5. NetFilesInv'
        BY <1>2, <1>5, <2>4, PulledStep
    <2> QED BY <2>1, <2>2, <2>4, <2>5 DEF target
<1>6. \/ UNCHANGED <<database, win>>
      \/ UNCHANGED database /\ Sets(Console, RefreshNets(win[Console]))
      \/ /\ target \in DOMAIN nets /\ Writes(target, added, {}) /\ UNCHANGED nets
         /\ Sets(Console, RefreshNets(win[Console]))
    BY DEF ImportPulledSessions
<1> QED BY <1>3, <1>4, <1>5, <1>6

LEMMA FinishPullFilesKeeps ==
    ASSUME NetFilesInv, FinishPullFiles
    PROVE  /\ NetFilesInv' /\ (NotTwiceHere => NotTwiceHere')
           /\ \A r \in rows' \ rows :
                 /\ pull.stage = "fetching" /\ r.session \in Upstream[pull.net]
                 /\ pull.sessions => r.net = win[Console].target
<1> DEFINE result == Head(posted)
<1>1. posted # << >> /\ result.what = "files" /\ posted' = Tail(posted) /\ UNCHANGED puller
    BY DEF FinishPullFiles
<1>2. /\ PullTypes /\ Fetched /\ Windowed /\ DatabaseTypes
      /\ show_pull_modal => win[Console].merge = "none" /\ win[Console].asks = NoFile
                            /\ writes < MaxWrites
    BY DEF NetFilesInv, PullInv, Windowed
<1>3. result \in Results /\ result = posted[1] /\ 1 \in 1..Len(posted)
    BY <1>1, <1>2, FirstIs
<1> HIDE DEF result
<1>4. CASE ~Awaited(result, "fetching")
    <2>1. UNCHANGED <<database, win, pull, dir, stray>>
        BY <1>4 DEF FinishPullFiles, result
    <2>2. dir' \cup stray' \subseteq Sessions /\ rows' = rows
        BY <1>2, <2>1 DEF PullTypes, database
    <2>3. PullInv'
        BY <1>1, <2>1, <2>2, TakesIs
    <2>4. UNCHANGED <<database, win>> /\ pull' = pull
        BY <2>1
    <2>5. NetFilesInv'
        BY <2>3, <2>4, PullStep DEF show_pull_modal
    <2> QED BY <2>2, <2>5 DEF NotTwiceHere
<1>5. CASE Awaited(result, "fetching")
    <2>1. /\ result.generation = pull.generation /\ pull.stage = "fetching"
          /\ pull' = CloseTheWindow /\ pull'.stage = "none"
          /\ show_pull_modal
        BY <1>2, <1>5 DEF FinishPullFiles, result, Awaited, CloseTheWindow, PullTypes, show_pull_modal
    <2>2. /\ result.net = pull.net /\ result.files \subseteq Upstream[pull.net]
          /\ pull.net \in Names /\ Upstream[pull.net] \in SUBSET Sessions
        BY <1>1, <1>2, <1>3, <2>1, UpstreamIs DEF Fetched
    <2>3. dir' \cup stray' \subseteq Sessions
        BY <1>2, <1>5 DEF FinishPullFiles, result, RemovePullDirectory, RemoveAll, PullTypes
    <2>4. PullInv'
        BY <1>1, <2>1, <2>3, TakesIs DEF result
    <2>5. CASE UNCHANGED <<database, win>>
        <3>1. rows' = rows
            BY <2>5 DEF database
        <3>2. NetFilesInv'
            BY <2>1, <2>4, <2>5, PullStep
        <3> QED BY <3>1, <3>2 DEF NotTwiceHere
    <2>6. CASE pull.sessions /\ ImportPulledSessions(result.files)
        <3>1. PICK files : files = result.files
            OBVIOUS
        <3>2. files \in SUBSET Sessions /\ files \subseteq Upstream[pull.net]
            BY <2>2, <3>1
        <3>3. /\ NetFilesInv' /\ (NotTwiceHere => NotTwiceHere')
              /\ \A r \in rows' \ rows : r.net = win[Console].target /\ r.session \in files
            BY <1>2, <2>1, <2>4, <2>6, <3>1, <3>2, ImportPulledSessionsIs
        <3> QED BY <2>1, <3>2, <3>3
    <2>7. CASE /\ ~pull.sessions
               /\ ImportNetSlice(Console, win[Console],
                                 [name |-> result.net, sessions |-> result.files], FALSE)
        <3>1. PICK given, file, checked :
                  /\ given = win[Console] /\ checked = FALSE
                  /\ file = [name |-> result.net, sessions |-> result.files]
            OBVIOUS
        <3>2. /\ ImportNetSlice(Console, given, file, checked) /\ file \in Files
              /\ file.sessions \subseteq Upstream[pull.net]
            BY <2>2, <2>7, <3>1 DEF Files
        <3>3. IsWin(given) /\ given.merge = "none" /\ given.asks = NoFile /\ Console \in Windows
            BY <1>2, <2>1, <3>1, NetFilesAssumption DEF NetFilesInv, WindowTypes
        <3>4. /\ DatabaseTypes' /\ (NotTwiceHere => NotTwiceHere')
              /\ \A r \in rows' \ rows : r.session \in file.sessions
              /\ \E rec : IsWin(rec) /\ Sets(Console, rec) /\ rec.merge # "summary"
            BY <1>2, <2>1, <3>2, <3>3, ImportNetSliceIs
        <3>5. NetFilesInv'
            BY <2>1, <2>4, <3>4, PulledStep
        <3> QED BY <2>1, <2>7, <3>2, <3>4, <3>5
    <2> QED BY <1>5, <2>5, <2>6, <2>7 DEF FinishPullFiles, result
<1> QED BY <1>4, <1>5

-----------------------------------------------------------------------------
(* Other people.                                                            *)

LEMMA SessionEditedKeeps ==
    ASSUME NetFilesInv, SessionEdited
    PROVE  NetFilesInv' /\ (NotTwiceHere => NotTwiceHere')
<1>1. PICK r \in rows : r.is = "file" /\ rows' = (rows \ {r}) \cup {[r EXCEPT !.is = "here"]}
    BY DEF SessionEdited
<1> DEFINE edited == [r EXCEPT !.is = "here"]
<1>2. /\ DOMAIN r = RowFields /\ r.net \in DOMAIN nets /\ r.session \in Sessions
      /\ nets' = nets /\ writes' = writes /\ win' = win
      /\ pull' = pull /\ puller' = puller /\ posted' = posted /\ dir' = dir /\ stray' = stray
    BY DEF SessionEdited, NetFilesInv, DatabaseTypes, pulling
<1>3. /\ DOMAIN edited = RowFields /\ edited.net = r.net /\ edited.session = r.session
      /\ edited.is = "here" /\ edited.id = r.id
    BY <1>2 DEF RowFields
<1> HIDE DEF edited
<1>4. \A q \in rows' : q = edited \/ (q \in rows /\ q # r)
    BY <1>1 DEF edited
<1>5. DatabaseTypes' /\ WindowTypes'
    BY <1>2, <1>3, <1>4 DEF NetFilesInv, DatabaseTypes, WindowTypes
<1>6. PullInv' /\ Windowed'
    BY <1>2 DEF NetFilesInv, PullInv, PullTypes, Waiting, Fetched, Windowed, show_pull_modal
<1>7. NotTwiceHere => NotTwiceHere'
    BY <1>3, <1>4 DEF NotTwiceHere
<1>8. Fits(win[Console], rows) => Fits(win[Console], rows')
    <2>1. \A q \in rows' : \E p \in rows : q.net = p.net /\ q.session = p.session /\ q.id = p.id
        BY <1>3, <1>4
    <2> QED BY <2>1 DEF Fits
<1>9. OneWindow'
    BY <1>2, <1>7, <1>8 DEF NetFilesInv, OneWindow
<1> QED BY <1>5, <1>6, <1>7, <1>9 DEF NetFilesInv

LEMMA NetDeletedKeeps ==
    ASSUME NetFilesInv, NetDeleted
    PROVE  NetFilesInv' /\ (NotTwiceHere => NotTwiceHere')
<1>1. PICK id \in DOMAIN nets : /\ nets' = [n \in DOMAIN nets \ {id} |-> nets[n]]
                                /\ rows' = {r \in rows : r.net # id}
    BY DEF NetDeleted
<1>2. /\ writes' = writes /\ win' = win
      /\ pull' = pull /\ puller' = puller /\ posted' = posted /\ dir' = dir /\ stray' = stray
    BY DEF NetDeleted, pulling
<1>3. DatabaseTypes' /\ WindowTypes'
    BY <1>1, <1>2 DEF NetFilesInv, DatabaseTypes, WindowTypes
<1>4. PullInv' /\ Windowed'
    BY <1>2 DEF NetFilesInv, PullInv, PullTypes, Waiting, Fetched, Windowed, show_pull_modal
<1>5. rows' \subseteq rows
    BY <1>1
<1>6. OneWindow'
    BY <1>2, <1>5 DEF NetFilesInv, OneWindow, NotTwiceHere, Fits
<1> QED BY <1>3, <1>4, <1>5, <1>6 DEF NetFilesInv, NotTwiceHere

LEMMA NetCreatedKeeps ==
    ASSUME NetFilesInv, NetCreated
    PROVE  NetFilesInv'
<1>1. PICK name \in Names, id \in NetIds \ DOMAIN nets :
          nets' = [n \in DOMAIN nets \cup {id} |-> IF n = id THEN name ELSE nets[n]]
    BY NetFilesAssumption DEF NetCreated
<1>2. /\ rows' = rows /\ writes' = writes /\ win' = win
      /\ pull' = pull /\ puller' = puller /\ posted' = posted /\ dir' = dir /\ stray' = stray
    BY DEF NetCreated, pulling
<1>3. DatabaseTypes' /\ WindowTypes'
    BY <1>1, <1>2 DEF NetFilesInv, DatabaseTypes, WindowTypes
<1>4. PullInv' /\ Windowed'
    BY <1>2 DEF NetFilesInv, PullInv, PullTypes, Waiting, Fetched, Windowed, show_pull_modal
<1>5. OneWindow'
    BY <1>2 DEF NetFilesInv, OneWindow, NotTwiceHere, Fits
<1> QED BY <1>3, <1>4, <1>5 DEF NetFilesInv

-----------------------------------------------------------------------------
(* The console's process.                                                   *)

LEMMA AppStateIs ==
    ASSUME NEW known
    PROVE  IsWin(AppState(known)) /\ AppState(known).merge = "none"
BY DEF IsWin, AppState, WinFields

LEMMA ConsoleEndsKeeps ==
    ASSUME NetFilesInv, ConsoleQuits \/ ConsoleKilled
    PROVE  /\ NetFilesInv' /\ rows' = rows /\ pull'.stage = "gone"
           /\ dir' # dir => pull.sessions /\ pull.stage = "fetching"
<1>1. /\ pull' = [NoPull EXCEPT !.stage = "gone", !.generation = pull.generation]
      /\ puller' = NoThread /\ posted' = << >>
      /\ Sets(Console, AppState(NoPlan)) /\ nets' = nets /\ rows' = rows /\ writes' = writes
    BY DEF ConsoleQuits, ConsoleKilled, ConsoleEnds, database
<1>2. Copied \subseteq Sessions /\ (Copied # {} => pull.sessions /\ pull.stage = "fetching")
    BY UpstreamIs DEF Copied, NetFilesInv, PullInv, Waiting, Fetched
<1>3. /\ dir' \cup stray' \subseteq Sessions
      /\ dir' # dir => pull.sessions /\ pull.stage = "fetching"
    BY <1>2 DEF ConsoleQuits, ConsoleKilled, NetFilesInv, PullInv, PullTypes
<1>4. PullInv'
    <2>1. Len(posted') = 0 /\ posted' \in Seq(Results)
        BY <1>1
    <2>2. PullTypes'
        BY <1>1, <1>3, <2>1 DEF NetFilesInv, PullInv, PullTypes, NoPull, NoThread
    <2> QED BY <1>1, <2>1, <2>2 DEF PullInv, Waiting, Fetched, NoPull, NoThread
<1>5. pull'.stage = "gone"
    BY <1>1 DEF NoPull
<1>6. WindowTypes' /\ win'[Console].merge = "none"
    BY <1>1, AppStateIs, SetsIs, NetFilesAssumption DEF NetFilesInv
<1>7. DatabaseTypes' /\ Windowed'
    BY <1>1, <1>5 DEF NetFilesInv, DatabaseTypes, Windowed, show_pull_modal
<1>8. OneWindow'
    BY <1>1, <1>6 DEF NetFilesInv, OneWindow, NotTwiceHere
<1> QED BY <1>1, <1>3, <1>4, <1>5, <1>6, <1>7, <1>8 DEF NetFilesInv

LEMMA StrayArrivesKeeps ==
    ASSUME NetFilesInv, StrayArrives
    PROVE  NetFilesInv' /\ dir' \subseteq dir \cup stray
<1>1. /\ UNCHANGED <<database, win>> /\ pull' = pull /\ puller' = puller /\ posted' = posted
      /\ stray' = {} /\ dir' \subseteq dir \cup stray
    BY DEF StrayArrives
<1>2. PullInv'
    BY <1>1 DEF NetFilesInv, PullInv, PullTypes, Waiting, Fetched
<1> QED BY <1>1, <1>2, PullStep DEF show_pull_modal

LEMMA ConsoleStartsKeeps ==
    ASSUME NetFilesInv, ConsoleStarts
    PROVE  NetFilesInv'
<1>1. /\ pull.stage = "gone" /\ pull' = [pull EXCEPT !.stage = "none"]
      /\ Sets(Console, AppState(nets)) /\ UNCHANGED <<database, puller, posted, dir, stray>>
    BY DEF ConsoleStarts
<1>2. /\ pull'.stage = "none" /\ pull'.generation = pull.generation /\ puller.at = "none"
      /\ pull' \in [stage : {"none", "listing", "choosing", "fetching", "gone"}, sessions : BOOLEAN,
                     generation : Nat, net : Names \cup {NoFile}]
    BY <1>1 DEF NetFilesInv, PullInv, PullTypes, Waiting
<1>3. PullInv'
    BY <1>1, <1>2 DEF NetFilesInv, PullInv, PullTypes, Waiting, Fetched
<1>4. nets' = nets /\ rows' = rows /\ writes' = writes
    BY <1>1 DEF database
<1>5. DatabaseTypes' /\ (NotTwiceHere => NotTwiceHere')
    BY <1>4 DEF NetFilesInv, DatabaseTypes, NotTwiceHere
<1>6. PICK rec : rec = AppState(nets)
    OBVIOUS
<1>7. IsWin(rec) /\ rec.merge # "summary" /\ Sets(Console, rec)
    BY <1>1, <1>6, AppStateIs
<1> QED BY <1>2, <1>3, <1>5, <1>7, PulledStep

-----------------------------------------------------------------------------
(* What becomes of imports/.pull.                                           *)

FolderStep ==
    ~Fetching' /\ dir' # {} =>
        IF Fetching THEN pull'.stage = "gone" ELSE dir' \subseteq dir \cup stray

(* A step that leaves the Pull window and the folder alone.                  *)
LEMMA FolderStands ==
    ASSUME UNCHANGED <<pull, dir>>
    PROVE  FolderStep
BY DEF FolderStep, Fetching

LEMMA WindowClears ==
    ASSUME NetFilesInv, OpenPullWindow \/ FinishPullList \/ ChoosePullNet \/ FinishPullFiles
                        \/ ClosePullWindow
    PROVE  FolderStep
<1>1. CASE OpenPullWindow
    BY <1>1 DEF OpenPullWindow, Free, FolderStep, Fetching
<1>2. CASE FinishPullList
    BY <1>2 DEF FinishPullList, Awaited, FolderStep, Fetching
<1>3. CASE ChoosePullNet
    BY <1>3 DEF ChoosePullNet, RemoveAll, FolderStep, Fetching
<1>4. CASE FinishPullFiles
    <2>1. UNCHANGED <<pull, dir>> \/ RemovePullDirectory
        BY <1>4 DEF FinishPullFiles
    <2>2. CASE RemovePullDirectory
        BY <2>2 DEF RemovePullDirectory, RemoveAll, FolderStep, Fetching
    <2> QED BY <2>1, <2>2, FolderStands
<1>5. CASE ClosePullWindow
    BY <1>5 DEF ClosePullWindow, RemovePullDirectory, RemoveAll, FolderStep, Fetching
<1> QED BY <1>1, <1>2, <1>3, <1>4, <1>5

-----------------------------------------------------------------------------
(* Every step, and what holds always.                                       *)

(* Whatever an import, a merge or a pull does keeps the invariant, and what    *)
(* comes with a result is what the window waits for.                        *)
LEMMA NextKeeps ==
    ASSUME NetFilesInv, [Next]_vars
    PROVE  /\ NetFilesInv'
           /\ Len(posted') < Len(posted) =>
                 \A r \in rows' \ rows :
                    /\ pull.stage = "fetching" /\ r.session \in Upstream[pull.net]
                    /\ pull.sessions => r.net = win[Console].target
           /\ NotTwiceHere => NotTwiceHere' \/ \E w \in Windows : ConfirmNetMerge(w)
           /\ FolderStep
<1>1. Len(posted) \in Nat
    BY LenProperties DEF NetFilesInv, PullInv, PullTypes
<1>2. ASSUME rows' = rows
      PROVE  NotTwiceHere => NotTwiceHere'
    BY <1>2 DEF NotTwiceHere
<1>3. CASE UNCHANGED vars
    <2>1. rows' = rows /\ posted' = posted /\ UNCHANGED <<pull, dir>>
        BY <1>3 DEF vars, database, pulling
    <2>2. PullInv'
        BY <1>3, PullStands DEF vars, NetFilesInv
    <2>3. NetFilesInv'
        BY <1>3, <2>2, PullStep DEF vars, pulling, show_pull_modal
    <2> QED BY <1>1, <1>2, <2>1, <2>3, FolderStands
<1>4. CASE \E w \in Windows : ShowImportNetPage(w) \/ OpenSessionImport(w) \/ LeaveImportPage(w)
    <2>1. posted' = posted /\ UNCHANGED <<pull, dir>> /\ rows' = rows
        BY <1>4 DEF ShowImportNetPage, OpenSessionImport, LeaveImportPage, pulling, database
    <2>2. NetFilesInv'
        BY <1>4, PagesKeep
    <2> QED BY <1>1, <1>2, <2>1, <2>2, FolderStands
<1>5. CASE \E w \in Windows : ImportSelectedNetSlice(w) \/ ImportSelectedNetSliceAnyway(w)
    <2>1. posted' = posted /\ UNCHANGED <<pull, dir>>
        BY <1>5 DEF ImportSelectedNetSlice, ImportSelectedNetSliceAnyway, pulling
    <2>2. NetFilesInv' /\ (NotTwiceHere => NotTwiceHere')
        BY <1>5, ImportNetSliceKeeps
    <2> QED BY <1>1, <2>1, <2>2, FolderStands
<1>6. CASE \E w \in Windows : ChooseMergeTarget(w) \/ ToggleMergeReplace(w) \/ BackOutOfNetMerge(w)
    <2>1. posted' = posted /\ UNCHANGED <<pull, dir>> /\ rows' = rows
        BY <1>6 DEF ChooseMergeTarget, ToggleMergeReplace, BackOutOfNetMerge, pulling, database
    <2>2. NetFilesInv'
        BY <1>6, ChooseMergeTargetKeeps, ToggleMergeReplaceKeeps, BackOutOfNetMergeKeeps
    <2> QED BY <1>1, <1>2, <2>1, <2>2, FolderStands
<1>7. CASE \E w \in Windows : ConfirmNetMerge(w)
    <2>1. posted' = posted /\ UNCHANGED <<pull, dir>>
        BY <1>7 DEF ConfirmNetMerge, pulling
    <2>2. NetFilesInv'
        BY <1>7, ConfirmNetMergeKeeps
    <2> QED BY <1>1, <1>7, <2>1, <2>2, FolderStands
<1>8. CASE \E w \in Windows : ImportSelectedSession(w) \/ ImportSelectedSessionAnyway(w)
                              \/ CancelConfirmPrompt(w)
    <2>1. posted' = posted /\ UNCHANGED <<pull, dir>>
        BY <1>8 DEF ImportSelectedSession, ImportSelectedSessionAnyway, CancelConfirmPrompt, pulling
    <2>2. NetFilesInv' /\ (NotTwiceHere => NotTwiceHere')
        BY <1>8, SessionFilesKeep
    <2> QED BY <1>1, <2>1, <2>2, FolderStands
<1>9. CASE OpenPullWindow \/ ChoosePullNet \/ ClosePullWindow
    <2>1. posted' = posted /\ rows' = rows
        BY <1>9 DEF OpenPullWindow, ChoosePullNet, ClosePullWindow, database
    <2>2. NetFilesInv'
        BY <1>9, OpenPullWindowKeeps, ChoosePullNetKeeps, ClosePullWindowKeeps
    <2> QED BY <1>1, <1>2, <1>9, <2>1, <2>2, WindowClears
<1>10. CASE FinishPullList
    <2>1. rows' = rows
        BY <1>10 DEF FinishPullList, database
    <2>2. NetFilesInv'
        BY <1>10, FinishPullListKeeps
    <2> QED BY <1>2, <1>10, <2>1, <2>2, WindowClears
<1>11. CASE FinishPullFiles
    BY <1>11, FinishPullFilesKeeps, WindowClears
<1>12. CASE ListsNets \/ ExportsFiles \/ CopiesFiles \/ PullerFails
    <2>1. /\ NetFilesInv' /\ rows' = rows /\ pull' = pull
          /\ dir' # dir => pull.sessions /\ pull.stage = "fetching"
        BY <1>12, ThreadKeeps DEF database
    <2>2. FolderStep
        BY <2>1 DEF FolderStep, Fetching
    <2> QED BY <1>2, <2>1, <2>2
<1>13. CASE SessionEdited \/ NetDeleted \/ NetCreated
    <2>1. posted' = posted /\ UNCHANGED <<pull, dir>> /\ (NetCreated => rows' = rows)
        BY <1>13 DEF SessionEdited, NetDeleted, NetCreated, pulling
    <2>2. NetFilesInv' /\ (NotTwiceHere => NotTwiceHere')
        BY <1>2, <1>13, <2>1, SessionEditedKeeps, NetDeletedKeeps, NetCreatedKeeps
    <2> QED BY <1>1, <2>1, <2>2, FolderStands
<1>14. CASE ConsoleQuits \/ ConsoleKilled
    <2>1. /\ NetFilesInv' /\ rows' = rows /\ pull'.stage = "gone"
          /\ dir' # dir => pull.sessions /\ pull.stage = "fetching"
        BY <1>14, ConsoleEndsKeeps
    <2>2. FolderStep
        BY <2>1 DEF FolderStep, Fetching
    <2> QED BY <1>2, <2>1, <2>2
<1>15. CASE StrayArrives
    <2>1. NetFilesInv' /\ dir' \subseteq dir \cup stray
        BY <1>15, StrayArrivesKeeps
    <2>2. posted' = posted /\ rows' = rows /\ pull' = pull
        BY <1>15 DEF StrayArrives, database
    <2>3. FolderStep
        BY <2>1, <2>2 DEF FolderStep, Fetching
    <2> QED BY <1>1, <1>2, <2>1, <2>2, <2>3
<1>16. CASE ConsoleStarts
    <2>1. NetFilesInv'
        BY <1>16, ConsoleStartsKeeps
    <2>2. posted' = posted /\ rows' = rows /\ dir' = dir /\ pull.stage = "gone"
        BY <1>16 DEF ConsoleStarts, database
    <2>3. FolderStep
        BY <2>2 DEF FolderStep, Fetching
    <2> QED BY <1>1, <1>2, <2>1, <2>2, <2>3
<1> QED BY <1>3, <1>4, <1>5, <1>6, <1>7, <1>8, <1>9, <1>10, <1>11, <1>12, <1>13, <1>14,
           <1>15, <1>16 DEF Next

(* The Pull window has the keys alone while it is up; its thread runs for its  *)
(* present step only; a result of that step means the thread is through, and   *)
(* its files are those of the net asked for; a console that starts anew has     *)
(* neither (PullRunner::Prepare, FinishPullFiles).                           *)
THEOREM NetFilesInvAlways == Spec => []NetFilesInv
<1>1. Init => NetFilesInv
    BY InitInv
<1>2. NetFilesInv /\ [Next]_vars => NetFilesInv'
    BY NextKeeps
<1> QED BY <1>1, <1>2, PTL DEF Spec

(* Every part of the state has its type, a window's plan is of its file, and   *)
(* the thread runs only for a Pull window that waits for it: however many      *)
(* people import, merge and delete besides.                                 *)
THEOREM TypesAlways == Spec => []TypeOK
<1>1. NetFilesInv => TypeOK
    <2> SUFFICES ASSUME NetFilesInv PROVE TypeOK
        OBVIOUS
    <2>1. Range(nets) \subseteq Names
        BY DEF NetFilesInv, DatabaseTypes, Range
    <2>2. /\ DOMAIN nets \subseteq NetIds /\ writes \in 0..MaxWrites
          /\ \A r \in rows : r.net \in DOMAIN nets /\ r.session \in Sessions
                             /\ r.is \in {"file", "here", "open"}
        BY DEF NetFilesInv, DatabaseTypes
    <2>3. \A w \in Windows :
             /\ win[w].page \in {"list", "nets", "sessions"}
             /\ win[w].merge \in {"none", "choose", "summary"}
             /\ win[w].merge = "summary" => DOMAIN win[w].plan = win[w].file.sessions
        BY DEF NetFilesInv, WindowTypes, IsWin
    <2>4. /\ pull.stage \in {"none", "listing", "choosing", "fetching", "gone"}
          /\ dir \cup stray \subseteq Sessions
          /\ puller.at \in {"none", "listing", "exporting", "copying"}
          /\ puller.at # "none" => /\ puller.generation = pull.generation
                                   /\ pull.stage = (IF puller.at = "listing" THEN "listing" ELSE "fetching")
        BY DEF NetFilesInv, PullInv, PullTypes, Waiting
    <2> QED BY <2>1, <2>2, <2>3, <2>4 DEF TypeOK
<1> QED BY <1>1, NetFilesInvAlways, PTL

(* However a pull of sessions ends in a console that goes on (it came through, *)
(* failed, or was closed), imports/.pull is empty with it, and no file comes     *)
(* there otherwise but by an scp that outlived its console: only a console     *)
(* that quits or is killed leaves files (RemovePullDirectory, ~PullRunner).    *)
THEOREM NoPullLeftAlways == Spec => NoPullLeft
<1>1. NetFilesInv /\ [Next]_vars =>
          (~Fetching' /\ dir' # {} =>
             IF Fetching THEN pull'.stage = "gone" ELSE dir' \subseteq dir \cup stray)
    BY NextKeeps DEF FolderStep
<1> QED BY <1>1, NetFilesInvAlways, PTL DEF Spec, NoPullLeft

(* What a pull adds is what the operator last asked for, and is still waiting  *)
(* for: a late result of a step given up adds nothing (FinishPullFiles).       *)
THEOREM PulledIsWantedAlways == Spec => PulledIsWanted
<1>1. NetFilesInv /\ [Next]_vars =>
          (Len(posted') < Len(posted) =>
             \A r \in rows' \ rows :
                /\ pull.stage = "fetching" /\ r.session \in Upstream[pull.net]
                /\ pull.sessions => r.net = win[Console].target)
    BY NextKeeps
<1> QED BY <1>1, NetFilesInvAlways, PTL DEF Spec, PulledIsWanted

(* In however many windows files are brought in: a session comes twice into a  *)
(* net only by a plan that was overtaken (ConfirmNetMerge).  HasNetInstance is *)
(* asked in the transaction that adds (ImportSession, ImportPulledSessions).  *)
OnlyPlansRepeat ==
    [][NotTwiceHere => NotTwiceHere' \/ \E w \in Windows : ConfirmNetMerge(w)]_vars

(* For any windows, and whatever others do: imports and pulls never put a      *)
(* session into a net twice (OnlyPlansRepeat).                              *)
THEOREM OnlyPlansEverRepeat == Spec => OnlyPlansRepeat
<1>1. NetFilesInv /\ [Next]_vars =>
          (NotTwiceHere => NotTwiceHere' \/ \E w \in Windows : ConfirmNetMerge(w))
    BY NextKeeps
<1> QED BY <1>1, NetFilesInvAlways, PTL DEF Spec, OnlyPlansRepeat

(* With one window, no net here ever has a session twice: imported, merged by   *)
(* a plan made earlier, or pulled, and whatever others edit and delete         *)
(* meanwhile.  (Two windows can break it: ConfirmNetMerge goes by its plan.)   *)
THEOREM NotTwiceHereAlone ==
    ASSUME Windows = {Console}
    PROVE  Spec => []NotTwiceHere
<1>1. NetFilesInv => NotTwiceHere
    BY DEF NetFilesInv, OneWindow
<1> QED BY <1>1, NetFilesInvAlways, PTL

=============================================================================
