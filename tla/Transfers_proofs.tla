--------------------------- MODULE Transfers_proofs ---------------------------
(***************************************************************************)
(* Proofs about the two ways files come and go: Uploads and Zmodem.           *)
(*                                                                         *)
(* Uploads: /imports only ever holds whole files, within a limit; no end of   *)
(* an upload leaves its temporary file; an upload answered OK is in place.     *)
(* One invariant carries them: an upload that misses a piece is known to have  *)
(* failed, and one that is open belongs to a running SFTP session or scp.      *)
(* Every action answers through Answers, so it is enough that the files,       *)
(* uploads and connections it gives to it are good.  The limit has another:    *)
(* what a folder may come to once every upload has landed.                   *)
(*                                                                         *)
(* Zmodem: the steps of its two ends are steps of FileTransfer.  The invariant *)
(* says what the line may hold for where the two ends are.                    *)
(***************************************************************************)
EXTENDS Uploads, Zmodem, TLAPS, FiniteSetTheorems, SequenceTheorems

-----------------------------------------------------------------------------
(* Uploads: what is good.                                                   *)

Told == {"", "saved", "failed", "exit 0", "exit 1"}

GoodFiles(files) == files \in [Paths -> File] /\ \A p \in Paths : ~files[p].missed

Writing == {"sftp", "scp -t"}

GoodProcess(p) == p \in Process /\ (p.runs \in Writing => p.dir \in Dirs)

GoodConns(k) == k = [c \in Connections |-> k[c]] /\ \A c \in Connections : GoodProcess(k[c])

GoodUpload(rec, connections) ==
    /\ rec \in Record
    /\ rec.missed => rec.failed
    /\ rec.stage = "open" => /\ rec.by \in Connections /\ rec.dir \in Dirs /\ rec.name \in Names
                             /\ connections[rec.by].runs \in Writing
    /\ rec.temp # Nowhere => \/ rec.temp = rec.dir /\ rec.stage \in {"open", "stray"}
                             \/ rec.dir = OldName /\ rec.temp = NewName

GoodUploads(uploads, connections) ==
    /\ uploads = [u \in Uploads |-> uploads[u]]
    /\ \A u \in Uploads : GoodUpload(uploads[u], connections)

UploadsInv ==
    /\ user \in Dirs /\ told \in Told
    /\ GoodFiles(imports)
    /\ GoodConns(conn)
    /\ GoodUploads(up, conn)

-----------------------------------------------------------------------------
(* What the parts an action puts together keep.                             *)

LEMMA UnusedIsGood ==
    ASSUME NEW k PROVE GoodUpload(Unused, k)
BY DEF GoodUpload, Unused, Record, Nowhere

(* The next state is good when what it is made of is.                        *)
LEMMA AnswersGood ==
    ASSUME NEW what \in Told, NEW files, NEW uploads, NEW connections,
           GoodFiles(files), GoodUploads(uploads, connections),
           GoodConns(connections), user' \in Dirs,
           Answers(what, files, uploads, connections)
    PROVE  UploadsInv'
<1>1. /\ imports' = files /\ conn' = connections /\ told' = what
      /\ up' = [u \in Uploads |-> IF uploads[u].stage = "open" \/ uploads[u].temp # Nowhere
                                  THEN uploads[u] ELSE Unused]
  BY DEF Answers
<1>2. \A u \in Uploads : GoodUpload(up'[u], conn')
  BY <1>1, UnusedIsGood DEF GoodUploads
<1>3. GoodUploads(up', conn')
  BY <1>1, <1>2 DEF GoodUploads
<1> QED
  BY <1>1, <1>3 DEF UploadsInv, GoodFiles

(* A connection that starts something has no upload open.                     *)
LEMMA NothingOpen ==
    ASSUME UploadsInv, NEW c \in Connections, conn[c].runs \notin Writing, NEW p
    PROVE  GoodUploads(up, [conn EXCEPT ![c] = p])
<1> DEFINE k == [conn EXCEPT ![c] = p]
<1>1. \A u \in Uploads : GoodUpload(up[u], k)
  <2> TAKE u \in Uploads
  <2>1. GoodUpload(up[u], conn)
    BY DEF UploadsInv, GoodUploads
  <2>2. up[u].stage = "open" => up[u].by # c /\ k[up[u].by] = conn[up[u].by]
    BY <2>1 DEF GoodUpload, UploadsInv
  <2> QED
    BY <2>1, <2>2 DEF GoodUpload
<1> QED
  BY <1>1 DEF GoodUploads, UploadsInv

LEMMA IdleIsGood ==
    ASSUME NEW d \in Dirs, NEW n \in Names \cup {""}
    PROVE  /\ GoodProcess(Idle)
           /\ GoodProcess([Idle EXCEPT !.runs = "sftp", !.dir = d])
           /\ GoodProcess([Idle EXCEPT !.runs = "scp -t", !.dir = d])
           /\ GoodProcess([Idle EXCEPT !.runs = "import", !.dir = d, !.name = n])
BY DEF Idle, Process, Nowhere, GoodProcess, Writing

LEMMA OneProcess ==
    ASSUME UploadsInv, NEW c \in Connections, NEW p, GoodProcess(p)
    PROVE  GoodConns([conn EXCEPT ![c] = p])
BY DEF UploadsInv, GoodConns

(* A connection that starts or ends something, with no upload open.            *)
LEMMA ChangesGood ==
    ASSUME UploadsInv, NEW c \in Connections, conn[c].runs \notin Writing, NEW p, GoodProcess(p),
           NEW files, GoodFiles(files), Becomes(files, up, [conn EXCEPT ![c] = p]), UNCHANGED user
    PROVE  UploadsInv'
<1>1. GoodUploads(up, [conn EXCEPT ![c] = p]) /\ GoodConns([conn EXCEPT ![c] = p])
  BY NothingOpen, OneProcess
<1> QED
  BY <1>1, AnswersGood DEF Becomes, UploadsInv, Told

LEMMA RemovedGood ==
    ASSUME UploadsInv, NEW p
    PROVE  GoodFiles([imports EXCEPT ![p] = NoFile])
BY DEF UploadsInv, GoodFiles, NoFile, File

LEMMA CloseFileGood ==
    ASSUME NEW rec, NEW k, GoodUpload(rec, k), NEW l
    PROVE  GoodUpload(CloseFile(rec), l) /\ GoodUpload(LeftOf(rec, "stray"), l)
BY DEF GoodUpload, CloseFile, LeftOf, Unlinked, Unused, Record, Nowhere

(* Creating the temporary file of an upload by `c`, whose process may write.   *)
LEMMA CreatesTempGood ==
    ASSUME UploadsInv, NEW c \in Connections, conn[c].runs \in Writing, conn[c].dir \in Dirs,
           NEW n \in Names, NEW limit \in Nat, CreatesTemp(c, n, limit), UNCHANGED user
    PROVE  UploadsInv'
<1> DEFINE new == [Unused EXCEPT !.stage = "open", !.name = n, !.dir = conn[c].dir,
                                 !.temp = conn[c].dir, !.limit = limit, !.by = c]
<1>1. PICK u \in Uploads : Becomes(imports, [up EXCEPT ![u] = new], conn)
  BY DEF CreatesTemp
<1>2. GoodUpload(new, conn)
  BY DEF GoodUpload, Unused, Record, Nowhere
<1>3. GoodUploads([up EXCEPT ![u] = new], conn)
  BY <1>2 DEF GoodUploads, UploadsInv
<1> HIDE DEF new
<1> QED
  BY <1>1, <1>3, AnswersGood DEF Becomes, UploadsInv, Told

(* One upload of the folder changed to something good.                        *)
LEMMA OneUpload ==
    ASSUME UploadsInv, NEW u \in Uploads, NEW rec, GoodUpload(rec, conn)
    PROVE  GoodUploads([up EXCEPT ![u] = rec], conn)
BY DEF GoodUploads, UploadsInv

(* A write leaves the upload good, whether it is stored or lost.               *)
LEMMA WriteGood ==
    ASSUME NEW k, NEW rec, GoodUpload(rec, k)
    PROVE  GoodUpload(Stored(rec), k) /\ GoodUpload(Lost(rec), k)
<1>1. rec.size \in Nat
  BY DEF GoodUpload, Record
<1>2. GoodUpload([rec EXCEPT !.size = rec.size + 1], k)
  <2> DEFINE more == rec.size + 1
  <2>1. more \in Nat
    BY <1>1
  <2> HIDE DEF more
  <2>2. GoodUpload([rec EXCEPT !.size = more], k)
    BY <2>1 DEF GoodUpload, Record
  <2> QED
    BY <2>2 DEF more
<1>3. GoodUpload(Lost(rec), k)
  BY DEF GoodUpload, Lost, Record
<1> QED
  BY <1>2, <1>3 DEF Stored

(* The end of an upload that has all come.                                   *)
LEMMA FinishesGood ==
    ASSUME UploadsInv, NEW u \in Uploads, Open(u), NEW sent \in BOOLEAN, NEW connections,
           GoodConns(connections),
           \A c \in Connections : connections[c].runs = conn[c].runs,
           Finishes(u, sent, connections), UNCHANGED user
    PROVE  UploadsInv'
<1>1. GoodUploads(up, connections)
  BY DEF GoodUploads, GoodUpload, UploadsInv
<1>2. GoodUpload(up[u], connections)
  BY <1>1 DEF GoodUploads
<1>3. CASE sent /\ Moves(u)
  <2>1. GoodFiles(ReplaceWithFile(u))
    BY <1>2, <1>3 DEF GoodUpload, GoodFiles, UploadsInv, ReplaceWithFile, FileOf, Moves, Record, File
  <2>2. GoodUploads([up EXCEPT ![u] = Unused], connections)
    BY <1>1, UnusedIsGood DEF GoodUploads
  <2>3. \E what \in Told : Answers(what, ReplaceWithFile(u), [up EXCEPT ![u] = Unused], connections)
    BY <1>3 DEF Finishes, Told
  <2> QED
    BY <2>1, <2>2, <2>3, AnswersGood DEF UploadsInv
<1>4. CASE ~(sent /\ Moves(u))
  <2>1. GoodUploads([up EXCEPT ![u] = CloseFile(@)], connections)
    BY <1>1, <1>2, CloseFileGood DEF GoodUploads
  <2>2. \E what \in Told : Answers(what, imports, [up EXCEPT ![u] = CloseFile(@)], connections)
    BY <1>4 DEF Finishes, Told
  <2> QED
    BY <2>1, <2>2, AnswersGood DEF UploadsInv
<1> QED
  BY <1>3, <1>4

(* A connection that ends, with everything it had open closed or left.         *)
LEMMA EndsGood ==
    ASSUME UploadsInv, NEW c \in Connections, NEW what \in Told, NEW v,
           v = [u \in Uploads |-> v[u]],
           \A u \in OpenBy(c) : GoodUpload(v[u], [conn EXCEPT ![c] = Idle]),
           \A u \in Uploads \ OpenBy(c) : v[u] = up[u],
           Answers(what, imports, v, [conn EXCEPT ![c] = Idle]),
           UNCHANGED user
    PROVE  UploadsInv'
<1> DEFINE k == [conn EXCEPT ![c] = Idle]
<1>0. GoodProcess(Idle)
  BY DEF Idle, Process, Nowhere, GoodProcess, Writing
<1>1. GoodConns(k)
  BY <1>0, OneProcess
<1>2. \A u \in Uploads : GoodUpload(v[u], k)
  <2> TAKE u \in Uploads
  <2>1. GoodUpload(up[u], conn)
    BY DEF UploadsInv, GoodUploads
  <2>2. CASE u \in OpenBy(c)
    BY <2>1, <2>2
  <2>3. CASE u \notin OpenBy(c)
    <3>1. up[u].stage = "open" => up[u].by # c /\ k[up[u].by] = conn[up[u].by]
      BY <2>1, <2>3 DEF GoodUpload, UploadsInv, OpenBy, Open
    <3> QED
      BY <2>1, <2>3, <3>1 DEF GoodUpload
  <2> QED
    BY <2>2, <2>3
<1>3. GoodUploads(v, k)
  BY <1>2 DEF GoodUploads
<1> QED
  BY <1>1, <1>3, AnswersGood DEF UploadsInv

-----------------------------------------------------------------------------
(* Every action.                                                            *)

LEMMA InitGood == Init => UploadsInv
<1> SUFFICES ASSUME Init PROVE UploadsInv
  OBVIOUS
<1>1. user \in Dirs /\ told \in Told
  BY UploadsAssumption DEF Init, Told
<1>2. GoodFiles(imports)
  BY DEF Init, GoodFiles, NoFile, File
<1>3. GoodConns(conn)
  BY DEF Init, Idle, Process, Nowhere, GoodConns, GoodProcess, Writing
<1>4. GoodUploads(up, conn)
  BY UnusedIsGood DEF Init, GoodUploads
<1> QED
  BY <1>1, <1>2, <1>3, <1>4 DEF UploadsInv

(* The exec commands.                                                       *)
LEMMA ExecGood ==
    ASSUME UploadsInv, NEW c \in Connections, Exec(c)
    PROVE  UploadsInv'
<1>1. user \in Dirs /\ GoodFiles(imports) /\ GoodConns(conn) /\ GoodUploads(up, conn) /\ "" \in Told
  BY DEF UploadsInv, Told
<1>2. ASSUME NEW n \in Names, ImportUpload(c, n) PROVE UploadsInv'
  <2>1. conn[c].runs \notin Writing /\ UNCHANGED user
    BY <1>2 DEF ImportUpload, MayAsk, Writing
  <2>2. GoodProcess([Idle EXCEPT !.runs = "import", !.dir = user, !.name = n])
    BY <1>1, IdleIsGood
  <2> QED
    BY <1>1, <1>2, <2>1, <2>2, ChangesGood DEF ImportUpload
<1>3. ASSUME NEW asks \in BOOLEAN, ImportEnds(c, asks) PROVE UploadsInv'
  <2>1. conn[c].runs \notin Writing /\ UNCHANGED user
    BY <1>3 DEF ImportEnds, Writing
  <2>2. GoodProcess(Idle)
    BY <1>1, IdleIsGood
  <2> DEFINE files == IF asks THEN imports ELSE [imports EXCEPT ![<<conn[c].dir, conn[c].name>>] = NoFile]
  <2>3. GoodFiles(files)
    BY <1>1, RemovedGood
  <2>4. Becomes(files, up, [conn EXCEPT ![c] = Idle])
    BY <1>3 DEF ImportEnds
  <2> HIDE DEF files
  <2> QED
    BY <2>1, <2>2, <2>3, <2>4, ChangesGood
<1>4. ASSUME NEW n \in Names, DiscardUpload(c, n) PROVE UploadsInv'
  <2>1. GoodFiles([imports EXCEPT ![<<user, n>>] = NoFile])
    BY RemovedGood
  <2> QED
    BY <1>1, <1>4, <2>1, AnswersGood DEF DiscardUpload, Becomes
<1> QED
  BY <1>2, <1>3, <1>4 DEF Exec

LEMMA SftpGood ==
    ASSUME UploadsInv, NEW c \in Connections, Sftp(c)
    PROVE  UploadsInv'
<1>1. /\ user \in Dirs /\ GoodFiles(imports) /\ GoodConns(conn)
      /\ GoodUploads(up, conn) /\ "" \in Told
  BY DEF UploadsInv, Told
<1>2. CASE RunSftpSession(c)
  <2>1. GoodProcess([Idle EXCEPT !.runs = "sftp", !.dir = user])
    BY <1>1, IdleIsGood
  <2>2. conn[c].runs \notin Writing /\ UNCHANGED user
    BY <1>2 DEF RunSftpSession, MayAsk, Writing
  <2> QED
    BY <1>1, <1>2, <2>1, <2>2, ChangesGood DEF RunSftpSession
<1>3. CASE SftpEnds(c)
  <2> DEFINE v == [u \in Uploads |-> IF u \in OpenBy(c) THEN CloseFile(up[u]) ELSE up[u]]
  <2>1. \A u \in OpenBy(c) : GoodUpload(v[u], [conn EXCEPT ![c] = Idle])
    BY <1>1, CloseFileGood DEF GoodUploads, OpenBy
  <2>2. Answers("", imports, v, [conn EXCEPT ![c] = Idle]) /\ UNCHANGED user
    BY <1>3 DEF SftpEnds, Becomes
  <2>3. v = [u \in Uploads |-> v[u]] /\ \A u \in Uploads \ OpenBy(c) : v[u] = up[u]
    OBVIOUS
  <2> HIDE DEF v
  <2> QED
    BY <1>1, <2>1, <2>2, <2>3, EndsGood
<1>4. ASSUME NEW n \in Names, OpenForWriting(c, n) PROVE UploadsInv'
  <2>1. PICK limit \in 1..MaxUpload : CreatesTemp(c, n, limit)
    BY <1>4 DEF OpenForWriting
  <2>2. conn[c].runs = "sftp" /\ UNCHANGED user
    BY <1>4 DEF OpenForWriting
  <2>3. limit \in Nat
    OBVIOUS
  <2>4. conn[c].dir \in Dirs
    BY <1>1, <2>2 DEF GoodConns, GoodProcess, Writing
  <2>5. conn[c].runs \in Writing
    BY <2>2 DEF Writing
  <2> QED
    BY <2>1, <2>2, <2>3, <2>4, <2>5, CreatesTempGood
<1>5. ASSUME NEW n \in Names, RemoveFile(c, n) PROVE UploadsInv'
  <2>1. GoodFiles([imports EXCEPT ![<<conn[c].dir, n>>] = NoFile])
    BY RemovedGood
  <2> QED
    BY <1>1, <1>5, <2>1, AnswersGood DEF RemoveFile, Becomes
<1>6. ASSUME NEW u \in Uploads, Write(c, u) PROVE UploadsInv'
  <2>1. PICK rec \in {Stored(up[u]), Lost(up[u])} : Becomes(imports, [up EXCEPT ![u] = rec], conn)
    BY <1>6 DEF Write, Written
  <2>2. GoodUpload(rec, conn)
    BY <1>1, WriteGood DEF GoodUploads
  <2>3. UNCHANGED user
    BY <1>6 DEF Write
  <2> QED
    BY <1>1, <2>1, <2>2, <2>3, OneUpload, AnswersGood DEF Becomes
<1>7. ASSUME NEW u \in Uploads, Close(c, u) PROVE UploadsInv'
  BY <1>1, <1>7, FinishesGood DEF Close, OpenBy
<1> QED
  BY <1>2, <1>3, <1>4, <1>5, <1>6, <1>7 DEF Sftp

LEMMA ScpGood ==
    ASSUME UploadsInv, NEW c \in Connections, Scp(c)
    PROVE  UploadsInv'
<1>1. /\ user \in Dirs /\ GoodFiles(imports) /\ GoodConns(conn)
      /\ GoodUploads(up, conn) /\ "" \in Told
  BY DEF UploadsInv, Told
<1>2. CASE Receive(c)
  <2>1. GoodProcess([Idle EXCEPT !.runs = "scp -t", !.dir = user])
    BY <1>1, IdleIsGood
  <2>2. conn[c].runs \notin Writing /\ UNCHANGED user
    BY <1>2 DEF Receive, MayAsk, Writing
  <2> QED
    BY <1>1, <1>2, <2>1, <2>2, ChangesGood DEF Receive
<1>3. ASSUME Becomes(imports, up, [conn EXCEPT ![c].failed = TRUE]), UNCHANGED user PROVE UploadsInv'
  <2> DEFINE k == [conn EXCEPT ![c].failed = TRUE]
  <2>1. k = [x \in Connections |-> k[x]] /\ \A x \in Connections : GoodProcess(k[x]) /\ k[x].runs = conn[x].runs
    BY <1>1 DEF GoodConns, GoodProcess, Process
  <2>2. Becomes(imports, up, k)
    BY <1>3
  <2> HIDE DEF k
  <2>3. GoodConns(k) /\ GoodUploads(up, k)
    BY <1>1, <2>1 DEF GoodConns, GoodUploads, GoodUpload
  <2> QED
    BY <1>1, <1>3, <2>2, <2>3, AnswersGood DEF Becomes
<1>4. CASE SkipsFile(c)
  BY <1>3, <1>4 DEF SkipsFile
<1>5. CASE ScpEnds(c)
  <2> DEFINE v == [u \in Uploads |-> IF u \in OpenBy(c) THEN CloseFile(up[u]) ELSE up[u]]
             what == IF conn[c].failed \/ OpenBy(c) # {} THEN "exit 1" ELSE "exit 0"
  <2>1. \A u \in OpenBy(c) : GoodUpload(v[u], [conn EXCEPT ![c] = Idle])
    BY <1>1, CloseFileGood DEF GoodUploads, OpenBy
  <2>2. Answers(what, imports, v, [conn EXCEPT ![c] = Idle]) /\ UNCHANGED user
    BY <1>5 DEF ScpEnds
  <2>3. v = [u \in Uploads |-> v[u]] /\ \A u \in Uploads \ OpenBy(c) : v[u] = up[u]
    OBVIOUS
  <2>4. what \in Told
    BY DEF Told
  <2> HIDE DEF v, what
  <2> QED
    BY <1>1, <2>1, <2>2, <2>3, <2>4, EndsGood
<1>6. ASSUME NEW n \in Names, Send(c, n) PROVE UploadsInv'
  <2>1. PICK status \in {"exit 0", "exit 1"} : Answers(status, imports, up, conn)
    BY <1>6 DEF Send
  <2>2. status \in Told /\ UNCHANGED user
    BY <1>6 DEF Send, Told
  <2> QED
    BY <1>1, <2>1, <2>2, AnswersGood
<1>7. ASSUME NEW n \in Names, NEW size \in Smallest..Longest, ReceiveFile(c, n, size) PROVE UploadsInv'
  <2>1. conn[c].runs = "scp -t" /\ UNCHANGED user
    BY <1>7 DEF ReceiveFile
  <2>2. CASE CreatesTemp(c, n, size)
    <3>1. Smallest \in Nat /\ Longest \in Nat
      BY UploadsAssumption
    <3>2. size \in Nat
      BY <3>1
    <3>3. conn[c].dir \in Dirs /\ conn[c].runs \in Writing
      BY <1>1, <2>1 DEF GoodConns, GoodProcess, Writing
    <3> QED
      BY <2>1, <2>2, <3>2, <3>3, CreatesTempGood
  <2>3. CASE Becomes(imports, up, [conn EXCEPT ![c].failed = TRUE])
    BY <1>3, <2>1, <2>3
  <2> QED
    BY <1>7, <2>2, <2>3 DEF ReceiveFile
<1>8. ASSUME NEW u \in Uploads, ReceiveChunk(c, u) PROVE UploadsInv'
  <2>1. PICK rec \in {Stored(up[u]), Lost(up[u])} : Becomes(imports, [up EXCEPT ![u] = rec], conn)
    BY <1>8 DEF ReceiveChunk, Chunks
  <2>2. GoodUpload(rec, conn)
    BY <1>1, WriteGood DEF GoodUploads
  <2>3. UNCHANGED user
    BY <1>8 DEF ReceiveChunk
  <2> QED
    BY <1>1, <2>1, <2>2, <2>3, OneUpload, AnswersGood DEF Becomes
<1>9. ASSUME NEW u \in Uploads, NEW word \in {"sent", "error", "gone"}, ReceiveEnds(c, u, word) PROVE UploadsInv'
  <2> DEFINE b == conn[c].failed \/ word = "error" \/ (word = "sent" /\ ~Moves(u))
             k == [conn EXCEPT ![c].failed = b]
  <2>1. b \in BOOLEAN
    OBVIOUS
  <2>2. Finishes(u, word = "sent", k) /\ UNCHANGED user /\ Open(u)
    BY <1>9 DEF ReceiveEnds, OpenBy
  <2> HIDE DEF b
  <2>3. GoodConns(k) /\ \A x \in Connections : k[x].runs = conn[x].runs
    BY <1>1, <2>1 DEF GoodConns, GoodProcess, Process
  <2> HIDE DEF k
  <2> QED
    BY <2>2, <2>3, FinishesGood
<1> QED
  BY <1>2, <1>4, <1>5, <1>6, <1>7, <1>8, <1>9 DEF Scp

(* What happens to the folders by themselves.                                *)
LEMMA DiesGood ==
    ASSUME UploadsInv, NEW c \in Connections, Dies(c)
    PROVE  UploadsInv'
<1> DEFINE v == [u \in Uploads |-> IF u \in OpenBy(c) THEN LeftOf(up[u], "stray") ELSE up[u]]
<1>1. \A u \in OpenBy(c) : GoodUpload(v[u], [conn EXCEPT ![c] = Idle])
  BY CloseFileGood DEF GoodUploads, OpenBy, UploadsInv
<1>2. Answers("", imports, v, [conn EXCEPT ![c] = Idle]) /\ UNCHANGED user
  BY DEF Dies, Becomes
<1>3. v = [u \in Uploads |-> v[u]] /\ \A u \in Uploads \ OpenBy(c) : v[u] = up[u]
  OBVIOUS
<1>4. "" \in Told
  BY DEF Told
<1> HIDE DEF v
<1> QED
  BY <1>1, <1>2, <1>3, <1>4, EndsGood

LEMMA MovesGood ==
    ASSUME UploadsInv, MoveSshUserFiles
    PROVE  UploadsInv'
<1> DEFINE f == [p \in Paths |-> IF p[1] = NewName THEN imports[<<OldName, p[2]>>] ELSE NoFile]
           v == [u \in Uploads |-> IF up[u].temp = OldName THEN [up[u] EXCEPT !.temp = NewName] ELSE up[u]]
<1>1. GoodFiles(f)
  <2>1. \A p \in Paths : <<OldName, p[2]>> \in Paths
    BY UploadsAssumption DEF Paths
  <2> QED
    BY <2>1 DEF UploadsInv, GoodFiles, NoFile, File
<1>2. \A u \in Uploads : GoodUpload(v[u], conn)
  <2> TAKE u \in Uploads
  <2>1. GoodUpload(up[u], conn)
    BY DEF UploadsInv, GoodUploads
  <2>2. ASSUME up[u].temp = OldName PROVE GoodUpload([up[u] EXCEPT !.temp = NewName], conn)
    BY <2>1, <2>2, UploadsAssumption DEF GoodUpload, Record
  <2> QED
    BY <2>1, <2>2
<1>3. GoodUploads(v, conn)
  BY <1>2 DEF GoodUploads
<1>4. user' \in Dirs /\ Becomes(f, v, conn)
  BY UploadsAssumption DEF MoveSshUserFiles
<1> HIDE DEF f, v
<1> QED
  BY <1>1, <1>3, <1>4, AnswersGood DEF Becomes, UploadsInv, Told

LEMMA OldFilesGood ==
    ASSUME UploadsInv,
           \/ \E p \in Paths : RemovesOldFile(p)
           \/ \E u \in Uploads : RemovesOldTemp(u)
    PROVE  UploadsInv'
<1>1. ASSUME NEW p \in Paths, RemovesOldFile(p) PROVE UploadsInv'
  BY <1>1, RemovedGood, AnswersGood DEF RemovesOldFile, Becomes, UploadsInv, Told
<1>2. ASSUME NEW u \in Uploads, RemovesOldTemp(u) PROVE UploadsInv'
  <2>1. GoodUpload([up[u] EXCEPT !.temp = Nowhere], conn)
    BY DEF UploadsInv, GoodUploads, GoodUpload, Record
  <2>2. GoodUploads([up EXCEPT ![u].temp = Nowhere], conn)
    BY <2>1 DEF UploadsInv, GoodUploads
  <2> QED
    BY <1>2, <2>2, AnswersGood DEF RemovesOldTemp, Becomes, UploadsInv, Told
<1> QED
  BY <1>1, <1>2

LEMMA NextGood ==
    ASSUME UploadsInv, [Next]_vars
    PROVE  UploadsInv'
<1>1. CASE Next
  <2>1. CASE \E c \in Connections : Sftp(c) \/ Scp(c) \/ Exec(c) \/ Dies(c)
    BY <2>1, SftpGood, ScpGood, ExecGood, DiesGood
  <2> QED
    BY <1>1, <2>1, MovesGood, OldFilesGood DEF Next
<1>2. CASE UNCHANGED vars
  BY <1>2 DEF vars, UploadsInv, GoodFiles, GoodConns, GoodUploads
<1> QED
  BY <1>1, <1>2

-----------------------------------------------------------------------------
(* The theorems.                                                            *)

(* UploadsInv holds whatever clients do, processes that die and moves included: *)
(* an upload with a hole is one that failed, an open one has its process.      *)
THEOREM UploadsInvAlways == Spec => []UploadsInv
<1>1. UploadsInv /\ [Next]_vars => UploadsInv'
  BY NextGood
<1> QED
  BY InitGood, <1>1, PTL DEF Spec

(* TypeOK: the folders, uploads and processes keep their types.               *)
THEOREM UploadsTyped == Spec => []TypeOK
<1>1. UploadsInv => TypeOK
  BY DEF UploadsInv, TypeOK, Told, GoodFiles, GoodConns, GoodProcess, GoodUploads, GoodUpload
<1> QED
  BY <1>1, UploadsInvAlways, PTL

(* OnlyWhole: whatever write fails, process dies or folder moves, a file in    *)
(* /imports is all its client sent (CloseHandle, ReceiveFile).                *)
THEOREM WholeFiles == Spec => []OnlyWhole
<1>1. UploadsInv => OnlyWhole
  BY DEF UploadsInv, OnlyWhole, GoodFiles
<1> QED
  BY <1>1, UploadsInvAlways, PTL

(* NoStrayTemps: every end of an upload but a death or a move of the folder    *)
(* removes its temporary file (CloseHandle, ~SftpSession, ReceiveFile).       *)
THEOREM NoTempsLeft == Spec => []NoStrayTemps
<1>1. UploadsInv => NoStrayTemps
  BY UploadsAssumption DEF UploadsInv, NoStrayTemps, GoodUploads, GoodUpload, Open, Writing
<1> QED
  BY <1>1, UploadsInvAlways, PTL

-----------------------------------------------------------------------------
(* What an upload's client is told.                                          *)

ToldRight ==
    \A u \in Uploads :
        Open(u) /\ ~Open(u)' =>
            IF told' = "saved" THEN imports'[Target(u)] = FileOf(u) ELSE imports' = imports

(* A step that ends no upload, or changes no file and says nothing is saved.   *)
LEMMA NothingSaved ==
    ASSUME NEW what, NEW files, NEW uploads, NEW k, Answers(what, files, uploads, k),
           \/ \A u \in Uploads : Open(u) => uploads[u].stage = "open"
           \/ files = imports /\ what # "saved"
    PROVE  ToldRight
BY DEF Answers, ToldRight, Open

LEMMA SameFiles ==
    ASSUME NEW uploads, NEW k, Becomes(imports, uploads, k)
    PROVE  ToldRight
BY NothingSaved DEF Becomes

LEMMA SameUploads ==
    ASSUME NEW files, NEW k, Becomes(files, up, k)
    PROVE  ToldRight
BY NothingSaved DEF Becomes, Open

LEMMA FinishesTold ==
    ASSUME UploadsInv, NEW u \in Uploads, Open(u), NEW sent \in BOOLEAN, NEW k, Finishes(u, sent, k)
    PROVE  ToldRight
<1>1. CASE sent /\ Moves(u)
  <2>1. Answers("saved", ReplaceWithFile(u), [up EXCEPT ![u] = Unused], k)
    BY <1>1 DEF Finishes, Saved
  <2>2. told' = "saved" /\ imports' = ReplaceWithFile(u)
    BY <2>1 DEF Answers
  <2>3. Target(u) \in Paths
    BY DEF UploadsInv, GoodUploads, GoodUpload, Open, Target, Paths
  <2>4. imports'[Target(u)] = FileOf(u)
    BY <2>2, <2>3 DEF ReplaceWithFile, UploadsInv, GoodFiles
  <2>5. \A v \in Uploads : Open(v) /\ ~Open(v)' => v = u
    BY <2>1 DEF Answers, Open, UploadsInv, GoodUploads
  <2> QED
    BY <2>2, <2>4, <2>5 DEF ToldRight
<1>2. CASE ~(sent /\ Moves(u))
  <2>1. Answers("failed", imports, [up EXCEPT ![u] = CloseFile(@)], k)
    BY <1>2 DEF Finishes, Saved
  <2> QED
    BY <2>1, NothingSaved
<1> QED
  BY <1>1, <1>2

LEMMA SftpTold ==
    ASSUME UploadsInv, NEW c \in Connections, Sftp(c)
    PROVE  ToldRight
<1>1. CASE RunSftpSession(c)
  BY <1>1, SameFiles DEF RunSftpSession
<1>2. CASE SftpEnds(c)
  BY <1>2, SameFiles DEF SftpEnds
<1>3. ASSUME NEW n \in Names, OpenForWriting(c, n) PROVE ToldRight
  BY <1>3, SameFiles DEF OpenForWriting, CreatesTemp
<1>4. ASSUME NEW n \in Names, RemoveFile(c, n) PROVE ToldRight
  BY <1>4, SameUploads DEF RemoveFile
<1>5. ASSUME NEW u \in Uploads, Write(c, u) PROVE ToldRight
  BY <1>5, SameFiles DEF Write
<1>6. ASSUME NEW u \in Uploads, Close(c, u) PROVE ToldRight
  BY <1>6, FinishesTold DEF Close, OpenBy
<1> QED
  BY <1>1, <1>2, <1>3, <1>4, <1>5, <1>6 DEF Sftp

LEMMA ScpTold ==
    ASSUME UploadsInv, NEW c \in Connections, Scp(c)
    PROVE  ToldRight
<1>1. CASE Receive(c)
  BY <1>1, SameFiles DEF Receive
<1>2. CASE SkipsFile(c)
  BY <1>2, SameFiles DEF SkipsFile
<1>3. CASE ScpEnds(c)
  BY <1>3, NothingSaved DEF ScpEnds
<1>4. ASSUME NEW n \in Names, Send(c, n) PROVE ToldRight
  <2>1. PICK status \in {"exit 0", "exit 1"} : Answers(status, imports, up, conn)
    BY <1>4 DEF Send
  <2> QED
    BY <2>1, NothingSaved
<1>5. ASSUME NEW n \in Names, NEW size \in Smallest..Longest, ReceiveFile(c, n, size) PROVE ToldRight
  BY <1>5, SameFiles DEF ReceiveFile, CreatesTemp
<1>6. ASSUME NEW u \in Uploads, ReceiveChunk(c, u) PROVE ToldRight
  BY <1>6, SameFiles DEF ReceiveChunk
<1>7. ASSUME NEW u \in Uploads, NEW word \in {"sent", "error", "gone"}, ReceiveEnds(c, u, word) PROVE ToldRight
  BY <1>7, FinishesTold DEF ReceiveEnds, OpenBy
<1> QED
  BY <1>1, <1>2, <1>3, <1>4, <1>5, <1>6, <1>7 DEF Scp

LEMMA OthersTold ==
    ASSUME NEW c \in Connections, Exec(c) \/ Dies(c)
    PROVE  ToldRight
<1>1. CASE Exec(c)
  BY <1>1, SameUploads DEF Exec, ImportUpload, ImportEnds, DiscardUpload
<1>2. CASE Dies(c)
  BY <1>2, SameFiles DEF Dies
<1> QED
  BY <1>1, <1>2

(* ToldIsThere: OK to an upload means its file is in place then, and anything  *)
(* else that the files are as they were (CloseHandle, ReceiveFile).           *)
THEOREM TellsTheTruth == Spec => ToldIsThere
<1>1. UploadsInv /\ [Next]_vars => [ToldRight]_vars
  <2> SUFFICES ASSUME UploadsInv, Next PROVE ToldRight
    BY DEF vars
  <2>1. CASE \E c \in Connections : Sftp(c) \/ Scp(c) \/ Exec(c) \/ Dies(c)
    BY <2>1, SftpTold, ScpTold, OthersTold
  <2>2. CASE MoveSshUserFiles
    <3>1. \A u \in Uploads : up[u] \in Record
      BY DEF UploadsInv, GoodUploads, GoodUpload
    <3>2. \A u \in Uploads : Open(u) => [up[u] EXCEPT !.temp = NewName].stage = "open"
      BY <3>1 DEF Open, Record
    <3> QED
      BY <2>2, <3>2, NothingSaved DEF MoveSshUserFiles, Becomes, Open
  <2>3. ASSUME NEW p \in Paths, RemovesOldFile(p) PROVE ToldRight
    BY <2>3, SameUploads DEF RemovesOldFile
  <2>4. ASSUME NEW u \in Uploads, RemovesOldTemp(u) PROVE ToldRight
    BY <2>4, SameFiles DEF RemovesOldTemp
  <2> QED
    BY <2>1, <2>2, <2>3, <2>4 DEF Next
<1>2. Spec => [][ToldRight]_vars
  BY <1>1, UploadsInvAlways, PTL DEF Spec
<1>3. [ToldRight]_vars <=>
        [\A u \in Uploads : Open(u) /\ ~Open(u)' =>
            IF told' = "saved" THEN imports'[Target(u)] = FileOf(u) ELSE imports' = imports]_vars
  BY DEF ToldRight
<1> QED
  BY <1>2, <1>3, PTL DEF ToldIsThere

-----------------------------------------------------------------------------
(* How much /imports may come to.  An upload on its way in stands for all it    *)
(* may still become, in place of the file it will replace: then whatever      *)
(* order uploads land in, what is there once they have is counted already.     *)

Landing(uploads, dir) ==
    {u \in Uploads : uploads[u].stage = "open" /\ uploads[u].dir = dir /\ uploads[u].temp = dir}
FilePieces(files, dir, names) == UNION {{n} \X (1..files[<<dir, n>>].size) : n \in names}
Named(uploads, S) == {uploads[u].name : u \in S}
MayLand(uploads, S) == UNION {{uploads[u].name} \X (1..uploads[u].limit) : u \in S}
Worth(files, uploads, dir, S) ==
    FilePieces(files, dir, Names \ Named(uploads, S)) \cup MayLand(uploads, S)

Most == MaxImports + (AtOnce - 1) * MaxUpload
Budget(files, uploads) ==
    \A dir \in Dirs : \A S \in SUBSET Landing(uploads, dir) :
        Cardinality(Worth(files, uploads, dir, S)) <= Most

InLimit(rec) == rec.stage = "open" => rec.size <= rec.limit /\ rec.limit <= MaxUpload
OpenOf(uploads) == {u \in Uploads : uploads[u].stage = "open"}

(* Nobody is in the folder of the new name before the user has it.            *)
NotYet(name, uploads, connections) ==
    name = OldName =>
        /\ \A c \in Connections : connections[c].dir # NewName
        /\ \A u \in Uploads : uploads[u].stage = "open" => uploads[u].dir # NewName

BudgetInv ==
    /\ Cardinality(OpenOf(up)) <= AtOnce
    /\ \A u \in Uploads : InLimit(up[u])
    /\ Budget(imports, up)
    /\ NotYet(user, up, conn)

LEMMA FiniteUnion ==
    ASSUME NEW S, IsFiniteSet(S), NEW f, f = [x \in S |-> f[x]], \A x \in S : IsFiniteSet(f[x])
    PROVE  IsFiniteSet(UNION {f[x] : x \in S})
<1> DEFINE T == {f[x] : x \in S}
<1>1. f \in Surjection(S, T)
  BY DEF Surjection
<1>2. IsFiniteSet(T)
  BY <1>1, FS_Surjection
<1> QED
  BY <1>2, FS_UNION

LEMMA Row ==
    ASSUME NEW x, NEW k \in Nat
    PROVE  IsFiniteSet({x} \X (1..k)) /\ Cardinality({x} \X (1..k)) = k
<1> DEFINE one == {x}
           to == 1..k
<1>1. IsFiniteSet(one) /\ Cardinality(one) = 1
  BY FS_Singleton
<1>2. IsFiniteSet(to) /\ Cardinality(to) = k
  BY FS_Interval
<1> HIDE DEF one, to
<1>3. IsFiniteSet(one \X to) /\ Cardinality(one \X to) = 1 * k
  BY <1>1, <1>2, FS_Product
<1> QED
  BY <1>3 DEF one, to

LEMMA FilePiecesFinite ==
    ASSUME NEW files \in [Paths -> File], NEW dir \in Dirs, NEW names \in SUBSET Names
    PROVE  IsFiniteSet(FilePieces(files, dir, names))
<1> DEFINE f == [n \in names |-> {n} \X (1..files[<<dir, n>>].size)]
<1>1. IsFiniteSet(names)
  BY UploadsAssumption, FS_Subset
<1>2. \A n \in names : IsFiniteSet(f[n])
  <2> TAKE n \in names
  <2>1. <<dir, n>> \in Paths
    BY DEF Paths
  <2>2. files[<<dir, n>>].size \in Nat
    BY <2>1 DEF File
  <2> QED
    BY <2>2, Row
<1>3. FilePieces(files, dir, names) = UNION {f[n] : n \in names}
  BY DEF FilePieces
<1>4. f = [n \in names |-> f[n]]
  OBVIOUS
<1> HIDE DEF f
<1> QED
  BY <1>1, <1>2, <1>3, <1>4, FiniteUnion

LEMMA UploadsFinite ==
    ASSUME NEW S \in SUBSET Uploads
    PROVE  IsFiniteSet(S) /\ Cardinality(S) \in Nat
<1>1. MaxUploads \in Nat
  BY UploadsAssumption
<1>2. IsFiniteSet(Uploads)
  BY <1>1, FS_Interval DEF Uploads
<1> QED
  BY <1>2, FS_Subset, FS_CardinalityType

LEMMA MayLandFinite ==
    ASSUME NEW uploads, NEW S \in SUBSET Uploads, \A u \in S : uploads[u].limit \in Nat
    PROVE  IsFiniteSet(MayLand(uploads, S))
<1> DEFINE f == [u \in S |-> {uploads[u].name} \X (1..uploads[u].limit)]
<1>1. IsFiniteSet(S)
  BY UploadsFinite
<1>2. \A u \in S : IsFiniteSet(f[u])
  BY Row
<1>3. MayLand(uploads, S) = UNION {f[u] : u \in S}
  BY DEF MayLand
<1>4. f = [u \in S |-> f[u]]
  OBVIOUS
<1> HIDE DEF f
<1> QED
  BY <1>1, <1>2, <1>3, <1>4, FiniteUnion

(* No more than a file's worth for each of them.                             *)
LEMMA MayLandBound ==
    ASSUME NEW uploads, NEW S \in SUBSET Uploads,
           \A u \in S : uploads[u].limit \in Nat /\ uploads[u].limit <= MaxUpload
    PROVE  Cardinality(MayLand(uploads, S)) <= Cardinality(S) * MaxUpload
<1> DEFINE D == S \X (1..MaxUpload)
           T == {<<uploads[u].name, k>> : u \in S, k \in 1..MaxUpload}
           f == [d \in D |-> <<uploads[d[1]].name, d[2]>>]
<1>0. MaxUpload \in Nat
  BY UploadsAssumption
<1>1. IsFiniteSet(D) /\ Cardinality(D) = Cardinality(S) * MaxUpload
  <2>1. IsFiniteSet(1..MaxUpload) /\ Cardinality(1..MaxUpload) = MaxUpload
    BY <1>0, FS_Interval
  <2> QED
    BY <2>1, UploadsFinite, FS_Product
<1>2. f \in Surjection(D, T)
  <2>1. \A d \in D : f[d] \in T
    OBVIOUS
  <2>2. \A t \in T : \E d \in D : f[d] = t
    <3> SUFFICES ASSUME NEW t \in T PROVE \E d \in D : f[d] = t
      OBVIOUS
    <3>1. PICK u \in S, k \in 1..MaxUpload : t = <<uploads[u].name, k>>
      OBVIOUS
    <3>2. <<u, k>> \in D /\ f[<<u, k>>] = t
      BY <3>1
    <3> QED
      BY <3>2
  <2>3. f = [d \in D |-> f[d]]
    OBVIOUS
  <2> HIDE DEF D, T, f
  <2> QED
    BY <2>1, <2>2, <2>3 DEF Surjection
<1> HIDE DEF D, f
<1>3. IsFiniteSet(T) /\ Cardinality(T) <= Cardinality(D)
  BY <1>1, <1>2, FS_Surjection
<1>4. MayLand(uploads, S) \in SUBSET T
  BY <1>0 DEF MayLand
<1> HIDE DEF T
<1>5. Cardinality(MayLand(uploads, S)) <= Cardinality(T) /\ IsFiniteSet(MayLand(uploads, S))
  BY <1>3, <1>4, FS_Subset
<1>6. /\ Cardinality(MayLand(uploads, S)) \in Nat /\ Cardinality(T) \in Nat
      /\ Cardinality(D) \in Nat
  BY <1>1, <1>3, <1>5, FS_CardinalityType
<1> QED
  BY <1>1, <1>3, <1>5, <1>6

LEMMA WorthFinite ==
    ASSUME NEW files \in [Paths -> File], NEW uploads, NEW dir \in Dirs,
           NEW S \in SUBSET Uploads, \A u \in S : uploads[u].limit \in Nat
    PROVE  /\ IsFiniteSet(Worth(files, uploads, dir, S))
           /\ Cardinality(Worth(files, uploads, dir, S)) \in Nat
<1>1. IsFiniteSet(FilePieces(files, dir, Names \ Named(uploads, S)))
  BY FilePiecesFinite
<1>2. IsFiniteSet(MayLand(uploads, S))
  BY MayLandFinite
<1> QED
  BY <1>1, <1>2, FS_Union, FS_CardinalityType DEF Worth

LEMMA MostNat == AtOnce \in Nat /\ MaxUpload \in Nat /\ MaxImports \in Nat /\ Most \in Nat
<1>1. AtOnce \in Nat \ {0} /\ MaxUpload \in Nat /\ MaxImports \in Nat
  BY UploadsAssumption
<1>2. AtOnce - 1 \in Nat
  BY <1>1
<1>3. (AtOnce - 1) * MaxUpload \in Nat
  BY <1>1, <1>2
<1> QED
  BY <1>1, <1>3 DEF Most

(* What a part of what was there comes to is still within the most.           *)
LEMMA PartOf ==
    ASSUME NEW W, IsFiniteSet(W), Cardinality(W) <= Most, NEW V \in SUBSET W
    PROVE  Cardinality(V) <= Most
<1>1. Cardinality(V) <= Cardinality(W) /\ IsFiniteSet(V)
  BY FS_Subset
<1>2. Cardinality(V) \in Nat /\ Cardinality(W) \in Nat
  BY <1>1, FS_CardinalityType
<1>4. Most \in Nat
  BY MostNat
<1> QED
  BY <1>1, <1>2, <1>4

LEMMA RecordsTyped ==
    ASSUME UploadsInv
    PROVE  /\ imports \in [Paths -> File]
           /\ \A u \in Uploads : up[u] \in Record /\ up[u].limit \in Nat /\ up[u].size \in Nat
           /\ \A u \in Uploads : Open(u) => up[u].dir \in Dirs /\ up[u].name \in Names
<1>1. \A u \in Uploads : up[u] \in Record
  BY DEF UploadsInv, GoodUploads, GoodUpload
<1>2. \A u \in Uploads : Open(u) => up[u].dir \in Dirs /\ up[u].name \in Names
  BY DEF UploadsInv, GoodUploads, GoodUpload, Open
<1>3. imports \in [Paths -> File]
  BY DEF UploadsInv, GoodFiles
<1> QED
  BY <1>1, <1>2, <1>3 DEF Record

(* The next state is within the budget when what it is made of is.            *)
LEMMA AnswersBudget ==
    ASSUME NEW what, NEW files, NEW uploads, NEW k, Answers(what, files, uploads, k),
           Cardinality(OpenOf(uploads)) <= AtOnce, \A u \in Uploads : InLimit(uploads[u]),
           Budget(files, uploads), NotYet(user', uploads, k)
    PROVE  BudgetInv'
<1>1. imports' = files /\ conn' = k /\ up' = [u \in Uploads |-> up'[u]]
  BY DEF Answers
<1>2. ASSUME NEW u \in Uploads
      PROVE  /\ up'[u].stage = "open" <=> uploads[u].stage = "open"
             /\ uploads[u].stage = "open" => up'[u] = uploads[u]
  BY DEF Answers, Unused
<1>3. OpenOf(up') = OpenOf(uploads)
  BY <1>2 DEF OpenOf
<1>4. \A u \in Uploads : InLimit(up'[u])
  BY <1>2 DEF InLimit
<1>5. Budget(imports', up')
  <2> SUFFICES ASSUME NEW dir \in Dirs, NEW S \in SUBSET Landing(up', dir)
               PROVE  Cardinality(Worth(imports', up', dir, S)) <= Most
    BY DEF Budget
  <2>1. S \in SUBSET Landing(uploads, dir) /\ \A u \in S : up'[u] = uploads[u]
    BY <1>2 DEF Landing
  <2>2. Named(up', S) = Named(uploads, S) /\ MayLand(up', S) = MayLand(uploads, S)
    BY <2>1 DEF Named, MayLand
  <2>3. Worth(imports', up', dir, S) = Worth(files, uploads, dir, S)
    BY <1>1, <2>2 DEF Worth
  <2> QED
    BY <2>1, <2>3 DEF Budget
<1>6. NotYet(user', up', conn')
  BY <1>1, <1>2 DEF NotYet
<1> QED
  BY <1>3, <1>4, <1>5, <1>6 DEF BudgetInv

(* An upload that goes on as it was, or ends.                                *)
Kept(rec, old) ==
    rec.stage = "open" =>
        /\ old.stage = "open" /\ rec.name = old.name /\ rec.dir = old.dir /\ rec.limit = old.limit
        /\ rec.size <= rec.limit
        /\ rec.temp = rec.dir => old.temp = old.dir

LEMMA BudgetKept ==
    ASSUME UploadsInv, BudgetInv, NEW files \in [Paths -> File], NEW uploads,
           \A u \in Uploads : Kept(uploads[u], up[u]),
           \A p \in Paths : files[p].size <= imports[p].size
    PROVE  Budget(files, uploads)
<1> SUFFICES ASSUME NEW dir \in Dirs, NEW S \in SUBSET Landing(uploads, dir)
             PROVE  Cardinality(Worth(files, uploads, dir, S)) <= Most
  BY DEF Budget
<1>1. /\ S \in SUBSET Landing(up, dir) /\ S \in SUBSET Uploads
      /\ \A u \in S : uploads[u].name = up[u].name /\ uploads[u].limit = up[u].limit
  BY DEF Landing, Kept
<1>2. Named(uploads, S) = Named(up, S) /\ MayLand(uploads, S) = MayLand(up, S)
  BY <1>1 DEF Named, MayLand
<1>3. ASSUME NEW names \in SUBSET Names
      PROVE  FilePieces(files, dir, names) \subseteq FilePieces(imports, dir, names)
  <2>1. ASSUME NEW n \in names
        PROVE  1..files[<<dir, n>>].size \subseteq 1..imports[<<dir, n>>].size
    <3>1. <<dir, n>> \in Paths
      BY DEF Paths
    <3>2. /\ files[<<dir, n>>].size \in Nat /\ imports[<<dir, n>>].size \in Nat
          /\ files[<<dir, n>>].size <= imports[<<dir, n>>].size
      BY <3>1, RecordsTyped DEF File
    <3> QED
      BY <3>2
  <2>2. ASSUME NEW w \in FilePieces(files, dir, names)
        PROVE  w \in FilePieces(imports, dir, names)
    <3>1. PICK n \in names : w \in {n} \X (1..files[<<dir, n>>].size)
      BY DEF FilePieces
    <3>2. w \in {n} \X (1..imports[<<dir, n>>].size)
      BY <2>1, <3>1
    <3> QED
      BY <3>2 DEF FilePieces
  <2> QED
    BY <2>2
<1>4. Worth(files, uploads, dir, S) \in SUBSET Worth(imports, up, dir, S)
  BY <1>2, <1>3 DEF Worth
<1>5. IsFiniteSet(Worth(imports, up, dir, S))
  BY <1>1, RecordsTyped, WorthFinite
<1>6. Cardinality(Worth(imports, up, dir, S)) <= Most
  BY <1>1 DEF BudgetInv, Budget
<1> QED
  BY <1>4, <1>5, <1>6, PartOf

LEMMA OpenKept ==
    ASSUME BudgetInv, NEW uploads, \A u \in Uploads : Kept(uploads[u], up[u])
    PROVE  Cardinality(OpenOf(uploads)) <= AtOnce
<1>1. OpenOf(uploads) \in SUBSET OpenOf(up) /\ OpenOf(up) \in SUBSET Uploads
  BY DEF OpenOf, Kept
<1>2. IsFiniteSet(OpenOf(up)) /\ Cardinality(OpenOf(up)) \in Nat /\ Cardinality(OpenOf(uploads)) \in Nat
  BY <1>1, UploadsFinite
<1>3. Cardinality(OpenOf(uploads)) <= Cardinality(OpenOf(up))
  BY <1>1, <1>2, FS_Subset
<1> QED
  BY <1>2, <1>3, MostNat DEF BudgetInv

(* A step that opens nothing and adds to no file.                            *)
LEMMA KeepsBudget ==
    ASSUME UploadsInv, BudgetInv, NEW what, NEW files \in [Paths -> File], NEW uploads, NEW k,
           Answers(what, files, uploads, k),
           \A u \in Uploads : Kept(uploads[u], up[u]),
           \A p \in Paths : files[p].size <= imports[p].size,
           \A c \in Connections : k[c].dir \in {conn[c].dir, user, Nowhere},
           UNCHANGED user
    PROVE  BudgetInv'
<1>1. Budget(files, uploads) /\ Cardinality(OpenOf(uploads)) <= AtOnce
  BY BudgetKept, OpenKept
<1>2. \A u \in Uploads : InLimit(uploads[u])
  BY DEF InLimit, Kept, BudgetInv
<1>3. NotYet(user', uploads, k)
  BY UploadsAssumption DEF NotYet, Kept, BudgetInv
<1> QED
  BY <1>1, <1>2, <1>3, AnswersBudget

(* Its parts.                                                               *)
LEMMA SameKept ==
    ASSUME UploadsInv, BudgetInv
    PROVE  /\ \A u \in Uploads : Kept(up[u], up[u])
           /\ \A p \in Paths : imports[p].size <= imports[p].size
<1>1. \A p \in Paths : imports[p].size \in Nat
  BY RecordsTyped DEF File
<1> QED
  BY <1>1 DEF Kept, BudgetInv, InLimit

LEMMA ClosedKept ==
    ASSUME NEW rec, NEW old
    PROVE  /\ Kept(CloseFile(rec), old) /\ Kept(LeftOf(rec, "stray"), old) /\ Kept(Unused, old)
BY DEF Kept, CloseFile, LeftOf, Unused

LEMMA RemovedKept ==
    ASSUME UploadsInv, NEW q
    PROVE  /\ [imports EXCEPT ![q] = NoFile] \in [Paths -> File]
           /\ \A p \in Paths : [imports EXCEPT ![q] = NoFile][p].size <= imports[p].size
<1>1. imports \in [Paths -> File] /\ \A p \in Paths : imports[p].size \in Nat
  BY RecordsTyped DEF File
<1>2. NoFile \in File /\ NoFile.size = 0
  BY DEF NoFile, File
<1>3. [imports EXCEPT ![q] = NoFile] \in [Paths -> File]
  BY <1>1, <1>2
<1>4. ASSUME NEW p \in Paths PROVE [imports EXCEPT ![q] = NoFile][p].size <= imports[p].size
  <2>1. CASE p = q
    BY <1>1, <1>2, <2>1
  <2>2. CASE p # q
    BY <1>1, <2>2
  <2> QED
    BY <2>1, <2>2
<1> QED
  BY <1>3, <1>4

LEMMA StartedDir ==
    ASSUME UploadsInv, NEW c \in Connections, NEW p, p.dir \in {conn[c].dir, user, Nowhere}
    PROVE  \A x \in Connections : [conn EXCEPT ![c] = p][x].dir \in {conn[x].dir, user, Nowhere}
BY DEF UploadsInv, GoodConns

-----------------------------------------------------------------------------
(* Every action keeps within the budget.                                     *)

LEMMA StartsBudget ==
    ASSUME UploadsInv, BudgetInv, NEW c \in Connections, NEW p, p.dir \in {conn[c].dir, user, Nowhere},
           Becomes(imports, up, [conn EXCEPT ![c] = p]), UNCHANGED user
    PROVE  BudgetInv'
<1> DEFINE k == [conn EXCEPT ![c] = p]
<1>1. \A x \in Connections : k[x].dir \in {conn[x].dir, user, Nowhere}
  BY StartedDir
<1>2. Answers("", imports, up, k)
  BY DEF Becomes
<1>3. imports \in [Paths -> File]
  BY RecordsTyped
<1> HIDE DEF k
<1> QED
  BY <1>1, <1>2, <1>3, SameKept, KeepsBudget

(* A file removed, by a connection that ends with it or goes on.              *)
LEMMA RemovesBudget ==
    ASSUME UploadsInv, BudgetInv, NEW q, NEW k, \A c \in Connections : k[c].dir \in {conn[c].dir, user, Nowhere},
           Becomes([imports EXCEPT ![q] = NoFile], up, k), UNCHANGED user
    PROVE  BudgetInv'
<1> DEFINE files == [imports EXCEPT ![q] = NoFile]
<1>1. files \in [Paths -> File] /\ \A p \in Paths : files[p].size <= imports[p].size
  BY RemovedKept
<1>2. Answers("", files, up, k)
  BY DEF Becomes
<1> HIDE DEF files
<1> QED
  BY <1>1, <1>2, SameKept, KeepsBudget

(* Uploads that go on as they were or end, and no file changed.               *)
LEMMA UploadsBudget ==
    ASSUME UploadsInv, BudgetInv, NEW what, NEW uploads, NEW k,
           \A u \in Uploads : Kept(uploads[u], up[u]),
           \A c \in Connections : k[c].dir \in {conn[c].dir, user, Nowhere},
           Answers(what, imports, uploads, k), UNCHANGED user
    PROVE  BudgetInv'
<1>1. imports \in [Paths -> File]
  BY RecordsTyped
<1> QED
  BY <1>1, SameKept, KeepsBudget

(* A piece more of one upload, or one lost, while it has room for it.          *)
LEMMA WriteBudget ==
    ASSUME UploadsInv, BudgetInv, NEW u \in Uploads, NEW rec,
           \/ rec = Lost(up[u])
           \/ rec = Stored(up[u]) /\ up[u].size < up[u].limit,
           Becomes(imports, [up EXCEPT ![u] = rec], conn), UNCHANGED user
    PROVE  BudgetInv'
<1> DEFINE v == [up EXCEPT ![u] = rec]
<1>1. up[u] \in Record /\ up[u].size \in Nat /\ up[u].limit \in Nat /\ Kept(up[u], up[u])
  BY RecordsTyped, SameKept
<1>2. Kept(rec, up[u])
  <2>1. CASE rec = Lost(up[u])
    BY <1>1, <2>1 DEF Lost, Kept, Record
  <2>2. CASE rec = Stored(up[u]) /\ up[u].size < up[u].limit
    <3>1. /\ rec.stage = up[u].stage /\ rec.name = up[u].name /\ rec.dir = up[u].dir
          /\ rec.limit = up[u].limit /\ rec.temp = up[u].temp
      BY <1>1, <2>2 DEF Stored, Record
    <3>2. rec.size = up[u].size + 1
      BY <1>1, <2>2 DEF Stored, Record
    <3> QED
      BY <1>1, <2>2, <3>1, <3>2 DEF Kept
  <2> QED
    BY <2>1, <2>2
<1>3. \A w \in Uploads : Kept(v[w], up[w])
  BY <1>2, SameKept DEF UploadsInv, GoodUploads
<1>4. Answers("", imports, v, conn)
  BY DEF Becomes
<1> HIDE DEF v
<1> QED
  BY <1>3, <1>4, UploadsBudget

(* An upload that lands: what it is now was already counted as what it might   *)
(* become.                                                                  *)
LEMMA LandsWithin ==
    ASSUME UploadsInv, BudgetInv, NEW u \in Uploads, Open(u), Replaces(u)
    PROVE  Budget(ReplaceWithFile(u), [up EXCEPT ![u] = Unused])
<1> DEFINE files == ReplaceWithFile(u)
           v == [up EXCEPT ![u] = Unused]
<1>1. /\ up[u].dir \in Dirs /\ up[u].name \in Names /\ up[u].size \in Nat /\ up[u].limit \in Nat
      /\ up[u].size <= up[u].limit /\ up[u].temp = up[u].dir /\ up[u].stage = "open"
  BY RecordsTyped DEF BudgetInv, InLimit, Open, Replaces
<1>2. /\ v[u] = Unused
      /\ \A w \in Uploads \ {u} : v[w] = up[w]
  BY DEF UploadsInv, GoodUploads
<1>3. /\ files[<<up[u].dir, up[u].name>>].size = up[u].size
      /\ \A p \in Paths : p # <<up[u].dir, up[u].name>> => files[p] = imports[p]
  <2> DEFINE to == <<up[u].dir, up[u].name>>
  <2>1. to \in Paths
    BY <1>1 DEF Paths
  <2>2. imports = [p \in Paths |-> imports[p]]
    BY RecordsTyped
  <2>3. files = [imports EXCEPT ![to] = FileOf(u)]
    BY DEF ReplaceWithFile, Target
  <2> HIDE DEF files, to
  <2>4. files[to] = FileOf(u) /\ \A p \in Paths : p # to => files[p] = imports[p]
    BY <2>1, <2>2, <2>3
  <2> QED
    BY <2>4 DEF FileOf, to
<1> SUFFICES Budget(files, v)
  OBVIOUS
<1> HIDE DEF files, v
<1> SUFFICES ASSUME NEW dir \in Dirs, NEW S \in SUBSET Landing(v, dir)
             PROVE  Cardinality(Worth(files, v, dir, S)) <= Most
  BY DEF Budget
<1>4. u \notin S /\ S \in SUBSET Landing(up, dir) /\ S \in SUBSET Uploads /\ \A w \in S : v[w] = up[w]
  <2>1. v[u].stage # "open"
    <3>1. v[u] = Unused
      BY <1>2
    <3>2. Unused.stage # "open"
      BY DEF Unused
    <3> QED
      BY <3>1, <3>2
  <2>2. \A w \in S : w \in Uploads /\ v[w].stage = "open" /\ v[w].dir = dir /\ v[w].temp = dir
    BY DEF Landing
  <2>3. u \notin S
    BY <2>1, <2>2
  <2>4. \A w \in S : v[w] = up[w]
    BY <1>2, <2>2, <2>3
  <2>5. \A w \in S : w \in Landing(up, dir)
    BY <2>2, <2>4 DEF Landing
  <2> QED
    BY <2>2, <2>3, <2>4, <2>5
<1>5. Named(v, S) = Named(up, S) /\ MayLand(v, S) = MayLand(up, S)
  BY <1>4 DEF Named, MayLand
<1> DEFINE T == IF dir = up[u].dir THEN S \cup {u} ELSE S
<1>6. T \in SUBSET Landing(up, dir) /\ T \in SUBSET Uploads
  BY <1>1, <1>4 DEF Landing
<1>7. MayLand(up, S) \subseteq Worth(imports, up, dir, T)
  BY DEF Worth, MayLand
<1>8. ASSUME NEW w \in FilePieces(files, dir, Names \ Named(up, S))
      PROVE  w \in Worth(imports, up, dir, T)
  <2>1. PICK n \in Names \ Named(up, S) : w \in {n} \X (1..files[<<dir, n>>].size)
    BY DEF FilePieces
  <2>2. CASE dir = up[u].dir /\ n = up[u].name
    <3>1. w \in {n} \X (1..up[u].limit)
      BY <1>1, <1>3, <2>1, <2>2
    <3>2. w \in MayLand(up, T)
      BY <2>2, <3>1 DEF MayLand
    <3> QED
      BY <3>2 DEF Worth
  <2>3. CASE ~(dir = up[u].dir /\ n = up[u].name)
    <3>1. files[<<dir, n>>] = imports[<<dir, n>>]
      BY <1>3, <2>3 DEF Paths
    <3>2. n \in Names \ Named(up, T)
      BY <2>1, <2>3 DEF Named
    <3>3. w \in FilePieces(imports, dir, Names \ Named(up, T))
      BY <2>1, <3>1, <3>2 DEF FilePieces
    <3> QED
      BY <3>3 DEF Worth
  <2> QED
    BY <2>2, <2>3
<1>9. Worth(files, v, dir, S) \in SUBSET Worth(imports, up, dir, T)
  BY <1>5, <1>7, <1>8 DEF Worth
<1>10. IsFiniteSet(Worth(imports, up, dir, T)) /\ Cardinality(Worth(imports, up, dir, T)) <= Most
  BY <1>6, RecordsTyped, WorthFinite DEF BudgetInv, Budget
<1> QED
  BY <1>9, <1>10, PartOf

LEMMA FinishesBudget ==
    ASSUME UploadsInv, BudgetInv, NEW u \in Uploads, Open(u), NEW sent \in BOOLEAN, NEW k,
           \A c \in Connections : k[c].dir = conn[c].dir,
           Finishes(u, sent, k), UNCHANGED user
    PROVE  BudgetInv'
<1>1. CASE sent /\ Moves(u)
  <2> DEFINE v == [up EXCEPT ![u] = Unused]
  <2>1. Budget(ReplaceWithFile(u), v)
    BY <1>1, LandsWithin DEF Moves
  <2>2. \A w \in Uploads : Kept(v[w], up[w])
    BY SameKept, ClosedKept DEF UploadsInv, GoodUploads
  <2>3. PICK what : Answers(what, ReplaceWithFile(u), v, k)
    BY <1>1 DEF Finishes
  <2> HIDE DEF v
  <2>4. Cardinality(OpenOf(v)) <= AtOnce
    BY <2>2, OpenKept
  <2>5. (\A w \in Uploads : InLimit(v[w])) /\ NotYet(user', v, k)
    BY <2>2 DEF InLimit, NotYet, Kept, BudgetInv
  <2> QED
    BY <2>1, <2>3, <2>4, <2>5, AnswersBudget
<1>2. CASE ~(sent /\ Moves(u))
  <2> DEFINE v == [up EXCEPT ![u] = CloseFile(@)]
  <2>1. \A w \in Uploads : Kept(v[w], up[w])
    BY SameKept, ClosedKept DEF UploadsInv, GoodUploads
  <2>2. PICK what : Answers(what, imports, v, k)
    BY <1>2 DEF Finishes
  <2> HIDE DEF v
  <2> QED
    BY <2>1, <2>2, UploadsBudget
<1> QED
  BY <1>1, <1>2

(* A limit leaves room, or is none.                                          *)
LEMMA LimitFits ==
    ASSUME UploadsInv, NEW dir \in Dirs, NEW n \in Names, NEW limit \in Nat,
           limit <= SftpUploadLimit(SftpImportsBytesUsed(dir, n))
    PROVE  /\ limit <= MaxUpload
           /\ limit = 0 \/ Cardinality(FilePieces(imports, dir, Names \ {n})) + limit <= MaxImports
<1> DEFINE t == [u \in Temps(dir) |-> {u} \X (1..up[u].size)]
<1>1. IsFiniteSet(Temps(dir))
  BY UploadsFinite DEF Temps
<1>2. \A u \in Temps(dir) : IsFiniteSet(t[u])
  BY RecordsTyped, Row DEF Temps
<1>3. t = [u \in Temps(dir) |-> t[u]] /\ TempsSize(dir) = Cardinality(UNION {t[u] : u \in Temps(dir)})
  BY DEF TempsSize
<1> HIDE DEF t
<1>4. TempsSize(dir) \in Nat
  BY <1>1, <1>2, <1>3, FiniteUnion, FS_CardinalityType
<1>5. IsFiniteSet(FilePieces(imports, dir, Names \ {n}))
  BY RecordsTyped, FilePiecesFinite
<1>6. Cardinality(FilePieces(imports, dir, Names \ {n})) \in Nat
  BY <1>5, FS_CardinalityType
<1>7. SftpImportsBytesUsed(dir, n) = Cardinality(FilePieces(imports, dir, Names \ {n})) + TempsSize(dir)
  BY DEF SftpImportsBytesUsed, FilesSize, PiecesOf, FilePieces
<1> QED
  BY <1>4, <1>6, <1>7, MostNat DEF SftpUploadLimit, Lower

LEMMA OneOfMany ==
    ASSUME NEW s \in Nat, NEW m \in Nat, NEW t \in Nat, s < t
    PROVE  s * m <= (t - 1) * m
<1>1. PICK d \in Nat : t - 1 = s + d
  <2>1. t - 1 - s \in Nat /\ t - 1 = s + (t - 1 - s)
    OBVIOUS
  <2> QED
    BY <2>1
<1>2. (s + d) * m = s * m + d * m
  OBVIOUS
<1>3. s * m \in Nat /\ d * m \in Nat
  OBVIOUS
<1> QED
  BY <1>1, <1>2, <1>3

(* An upload that is opened: the rest of what may come is a file's worth for    *)
(* each of the others, and this one has what is left.                         *)
LEMMA OpensBudget ==
    ASSUME UploadsInv, BudgetInv, NEW c \in Connections, NEW n \in Names, NEW limit \in Nat, conn[c].dir \in Dirs,
           limit <= SftpUploadLimit(SftpImportsBytesUsed(conn[c].dir, n)),
           CreatesTemp(c, n, limit), UNCHANGED user
    PROVE  BudgetInv'
<1> DEFINE new == [Unused EXCEPT !.stage = "open", !.name = n, !.dir = conn[c].dir,
                                 !.temp = conn[c].dir, !.limit = limit, !.by = c]
           at == conn[c].dir
<1>1. PICK u \in Uploads :
        /\ up[u] = Unused /\ Cardinality(OpenOf(up)) < AtOnce
        /\ Becomes(imports, [up EXCEPT ![u] = new], conn)
  BY DEF CreatesTemp, OpenOf, Open
<1> DEFINE v == [up EXCEPT ![u] = new]
<1>2. /\ new.stage = "open" /\ new.name = n /\ new.dir = at /\ new.temp = at
      /\ new.limit = limit /\ new.size = 0
  BY DEF Unused
<1> HIDE DEF new
<1>3. v[u] = new /\ (\A w \in Uploads \ {u} : v[w] = up[w]) /\ up[u].stage = "unused"
  <2>1. up[u].stage = "unused"
    <3>1. up[u] = Unused
      BY <1>1
    <3>2. Unused.stage = "unused"
      BY DEF Unused
    <3> QED
      BY <3>1, <3>2
  <2>2. DOMAIN up = Uploads
    BY DEF UploadsInv, GoodUploads
  <2>3. v[u] = new
    BY <2>2
  <2>4. \A w \in Uploads \ {u} : v[w] = up[w]
    BY <2>2
  <2> QED
    BY <2>1, <2>3, <2>4
<1>4. Answers("", imports, v, conn)
  BY <1>1 DEF Becomes
<1> HIDE DEF v
<1>5. /\ limit <= MaxUpload
      /\ limit = 0 \/ Cardinality(FilePieces(imports, at, Names \ {n})) + limit <= MaxImports
  BY LimitFits
<1>6. Cardinality(OpenOf(v)) <= AtOnce
  <2> DEFINE O == OpenOf(up)
             P == O \cup {u}
  <2>1. OpenOf(v) \in SUBSET P
    BY <1>3 DEF OpenOf
  <2>2. OpenOf(up) \in SUBSET Uploads
    BY DEF OpenOf
  <2>3. IsFiniteSet(O) /\ Cardinality(O) \in Nat /\ Cardinality(O) < AtOnce
    BY <1>1, <2>2, UploadsFinite
  <2> HIDE DEF O
  <2>4. IsFiniteSet(P) /\ Cardinality(P) = IF u \in O THEN Cardinality(O) ELSE Cardinality(O) + 1
    BY <2>3, FS_AddElement
  <2> HIDE DEF P
  <2>5. Cardinality(OpenOf(v)) <= Cardinality(P) /\ IsFiniteSet(OpenOf(v))
    BY <2>1, <2>4, FS_Subset
  <2>6. Cardinality(OpenOf(v)) \in Nat /\ Cardinality(P) \in Nat
    BY <2>4, <2>5, FS_CardinalityType
  <2> QED
    BY <2>3, <2>4, <2>5, <2>6, MostNat
<1>7. \A w \in Uploads : InLimit(v[w])
  BY <1>2, <1>3, <1>5 DEF InLimit, BudgetInv
<1>8. NotYet(user', v, conn)
  BY <1>2, <1>3 DEF NotYet, BudgetInv
<1>9. Budget(imports, v)
  <2> SUFFICES ASSUME NEW dir \in Dirs, NEW S \in SUBSET Landing(v, dir)
               PROVE  Cardinality(Worth(imports, v, dir, S)) <= Most
    BY DEF Budget
  <2> DEFINE T == S \ {u}
  <2>1. /\ T \in SUBSET Landing(up, dir) /\ T \in SUBSET Uploads /\ T \in SUBSET OpenOf(up)
        /\ \A w \in T : v[w] = up[w]
    BY <1>3 DEF Landing, OpenOf
  <2>2. MayLand(v, T) = MayLand(up, T) /\ Named(v, T) = Named(up, T)
    BY <2>1 DEF MayLand, Named
  <2>3. Cardinality(Worth(imports, up, dir, T)) <= Most /\ IsFiniteSet(Worth(imports, up, dir, T))
    BY <2>1, RecordsTyped, WorthFinite DEF BudgetInv, Budget
  <2>4. FilePieces(imports, dir, Names \ Named(v, S)) \subseteq FilePieces(imports, dir, Names \ Named(v, T))
    BY DEF FilePieces, Named
  <2>5. CASE u \notin S
    <3>1. T = S
      BY <2>5
    <3> QED
      BY <2>2, <2>3, <3>1 DEF Worth
  <2>6. CASE u \in S /\ limit = 0
    <3>1. MayLand(v, S) \subseteq MayLand(v, T)
      BY <1>2, <1>3, <2>6 DEF MayLand
    <3>2. Worth(imports, v, dir, S) \in SUBSET Worth(imports, up, dir, T)
      BY <2>2, <2>4, <3>1 DEF Worth
    <3> QED
      BY <2>3, <3>2, PartOf
  <2>7. CASE u \in S /\ limit # 0
    <3>1. dir = at
      BY <1>2, <1>3, <2>7 DEF Landing
    <3> DEFINE A == FilePieces(imports, dir, Names \ {n})
               B == {n} \X (1..limit)
               C == MayLand(up, T)
    <3>2. IsFiniteSet(A) /\ Cardinality(A) \in Nat /\ Cardinality(A) + limit <= MaxImports
      BY <1>5, <2>7, <3>1, RecordsTyped, FilePiecesFinite, FS_CardinalityType
    <3>3. IsFiniteSet(B) /\ Cardinality(B) = limit
      BY Row
    <3>4. IsFiniteSet(C) /\ Cardinality(C) \in Nat /\ Cardinality(C) <= Cardinality(T) * MaxUpload
      <4>1. \A w \in T : up[w].limit \in Nat /\ up[w].limit <= MaxUpload
        BY <2>1, RecordsTyped DEF BudgetInv, InLimit, OpenOf
      <4> QED
        BY <2>1, <4>1, MayLandFinite, MayLandBound, FS_CardinalityType
    <3>5. Cardinality(T) * MaxUpload <= (AtOnce - 1) * MaxUpload
      <4>1. OpenOf(up) \in SUBSET Uploads
        BY DEF OpenOf
      <4>2. IsFiniteSet(OpenOf(up)) /\ Cardinality(OpenOf(up)) \in Nat /\ Cardinality(T) \in Nat
        BY <2>1, <4>1, UploadsFinite
      <4>3. Cardinality(T) <= Cardinality(OpenOf(up))
        BY <2>1, <4>2, FS_Subset
      <4>4. Cardinality(T) < AtOnce
        BY <1>1, <4>2, <4>3, MostNat
      <4> QED
        BY <4>2, <4>4, MostNat, OneOfMany
    <3>6. Worth(imports, v, dir, S) \in SUBSET ((A \cup B) \cup C)
      <4>1. FilePieces(imports, dir, Names \ Named(v, S)) \subseteq A
        <5>1. Names \ Named(v, S) \subseteq Names \ {n}
          BY <1>2, <1>3, <2>7 DEF Named
        <5> QED
          BY <5>1 DEF FilePieces
      <4>2. MayLand(v, S) \subseteq B \cup MayLand(v, T)
        BY <1>2, <1>3 DEF MayLand
      <4> QED
        BY <2>2, <4>1, <4>2 DEF Worth
    <3> HIDE DEF A, B, C, T
    <3>7. IsFiniteSet(A \cup B) /\ Cardinality(A \cup B) <= Cardinality(A) + limit
      <4>1. IsFiniteSet(A \cup B) /\ Cardinality(A \cup B) = Cardinality(A) + Cardinality(B) - Cardinality(A \cap B)
        BY <3>2, <3>3, FS_Union
      <4>2. Cardinality(A \cap B) \in Nat
        BY <3>2, FS_Intersection, FS_CardinalityType
      <4> QED
        BY <3>2, <3>3, <4>1, <4>2
    <3>8. /\ IsFiniteSet((A \cup B) \cup C)
          /\ Cardinality((A \cup B) \cup C) <= Cardinality(A) + limit + Cardinality(C)
      <4> DEFINE D == A \cup B
      <4>0. IsFiniteSet(D) /\ Cardinality(D) \in Nat /\ Cardinality(D) <= Cardinality(A) + limit
        BY <3>7, FS_CardinalityType
      <4> HIDE DEF D
      <4>1. IsFiniteSet(D \cup C) /\ Cardinality(D \cup C) = Cardinality(D) + Cardinality(C) - Cardinality(D \cap C)
        BY <3>4, <4>0, FS_Union
      <4>2. Cardinality(D \cap C) \in Nat
        BY <4>0, FS_Intersection, FS_CardinalityType
      <4>3. IsFiniteSet(D \cup C) /\ Cardinality(D \cup C) <= Cardinality(A) + limit + Cardinality(C)
        BY <3>2, <3>4, <4>0, <4>1, <4>2
      <4> QED
        BY <4>3 DEF D
    <3>9. Cardinality((A \cup B) \cup C) <= Most
      <4>1. Cardinality((A \cup B) \cup C) \in Nat
        BY <3>8, FS_CardinalityType
      <4>2. PICK s \in Int : s = Cardinality(T) * MaxUpload
        <5>1. Cardinality(T) \in Nat
          BY <2>1, UploadsFinite DEF T
        <5>2. Cardinality(T) * MaxUpload \in Int
          BY <5>1, MostNat
        <5> QED
          BY <5>2
      <4>3. PICK r \in Int : r = (AtOnce - 1) * MaxUpload
        BY MostNat
      <4>4. Most = MaxImports + r
        BY <4>3 DEF Most
      <4>5. Cardinality(C) <= s /\ s <= r
        BY <3>4, <3>5, <4>2, <4>3
      <4> QED
        BY <3>2, <3>4, <3>8, <4>1, <4>4, <4>5, MostNat
    <3> QED
      BY <3>6, <3>8, <3>9, PartOf
  <2> QED
    BY <2>5, <2>6, <2>7
<1> QED
  BY <1>4, <1>6, <1>7, <1>8, <1>9, AnswersBudget

(* The folder follows the user: nobody was in the new one, and nothing that was  *)
(* being written lands there.                                                *)
LEMMA MovesBudget ==
    ASSUME UploadsInv, BudgetInv, MoveSshUserFiles
    PROVE  BudgetInv'
<1> DEFINE f == [p \in Paths |-> IF p[1] = NewName THEN imports[<<OldName, p[2]>>] ELSE NoFile]
           v == [u \in Uploads |-> IF up[u].temp = OldName THEN [up[u] EXCEPT !.temp = NewName] ELSE up[u]]
<1>1. user = OldName /\ user' = NewName /\ Answers("", f, v, conn)
  BY DEF MoveSshUserFiles, Becomes
<1>2. OldName \in Dirs /\ NewName \in Dirs /\ OldName # NewName /\ Dirs = {OldName, NewName}
  BY UploadsAssumption
<1>3. ASSUME NEW u \in Uploads
      PROVE  /\ v[u].stage = up[u].stage /\ v[u].dir = up[u].dir /\ v[u].size = up[u].size
             /\ v[u].limit = up[u].limit /\ v[u].temp # OldName
  <2>1. up[u] \in Record
    BY RecordsTyped
  <2> QED
    BY <1>2, <2>1 DEF Record
<1>4. ASSUME NEW n \in Names
      PROVE  /\ f[<<NewName, n>>] = imports[<<OldName, n>>]
             /\ f[<<OldName, n>>].size = 0
  BY <1>2 DEF Paths, NoFile
<1> HIDE DEF f, v
<1>5. OpenOf(v) = OpenOf(up) /\ \A u \in Uploads : InLimit(v[u])
  BY <1>3 DEF OpenOf, BudgetInv, InLimit
<1>6. ASSUME NEW dir \in Dirs PROVE Landing(v, dir) = {}
  <2>1. CASE dir = OldName
    BY <1>3, <2>1 DEF Landing
  <2>2. CASE dir = NewName
    BY <1>1, <1>3, <2>2 DEF Landing, BudgetInv, NotYet
  <2> QED
    BY <1>2, <2>1, <2>2
<1>7. ASSUME NEW dir \in Dirs
      PROVE  Cardinality(Worth(f, v, dir, {})) <= Most
  <2> DEFINE W == Worth(imports, up, OldName, {})
  <2>0. {} \in SUBSET Landing(up, OldName) /\ {} \in SUBSET Uploads
    OBVIOUS
  <2>1. IsFiniteSet(W) /\ Cardinality(W) <= Most
    <3>1. PICK none : none = {}
      OBVIOUS
    <3>2. none \in SUBSET Landing(up, OldName) /\ none \in SUBSET Uploads
      BY <3>1
    <3>3. Cardinality(Worth(imports, up, OldName, none)) <= Most
      BY <1>2, <3>2 DEF BudgetInv, Budget
    <3>4. IsFiniteSet(Worth(imports, up, OldName, none))
      BY <1>2, <3>2, RecordsTyped, WorthFinite
    <3> QED
      BY <3>1, <3>3, <3>4
  <2>2. Worth(f, v, dir, {}) \in SUBSET W
    <3>1. CASE dir = NewName
      <4>1. MayLand(v, {}) = {} /\ Named(v, {}) = {} /\ Named(up, {}) = {}
        BY DEF Named, MayLand
      <4>2. FilePieces(f, NewName, Names) \subseteq FilePieces(imports, OldName, Names)
        BY <1>4 DEF FilePieces
      <4> QED
        BY <3>1, <4>1, <4>2 DEF Worth
    <3>2. CASE dir = OldName
      <4>0. 1..0 = {}
        OBVIOUS
      <4>1. ASSUME NEW n \in Names PROVE 1..f[<<OldName, n>>].size = {}
        BY <1>4, <4>0
      <4>2. ASSUME NEW names \in SUBSET Names PROVE FilePieces(f, OldName, names) = {}
        <5>1. ASSUME NEW n \in names PROVE {n} \X (1..f[<<OldName, n>>].size) = {}
          BY <4>1
        <5> QED
          BY <5>1 DEF FilePieces
      <4>3. MayLand(v, {}) = {}
        BY DEF MayLand
      <4>4. Worth(f, v, OldName, {}) = {}
        BY <4>2, <4>3 DEF Worth
      <4> QED
        BY <3>2, <4>4
    <3> QED
      BY <1>2, <3>1, <3>2
  <2> HIDE DEF W
  <2> QED
    BY <2>1, <2>2, PartOf
<1>8. Budget(f, v)
  BY <1>6, <1>7 DEF Budget
<1>9. NotYet(user', v, conn)
  BY <1>1, <1>2 DEF NotYet
<1>10. Cardinality(OpenOf(v)) <= AtOnce
  BY <1>5 DEF BudgetInv
<1> QED
  BY <1>1, <1>5, <1>8, <1>9, <1>10, AnswersBudget

LEMMA InitBudget == Init => BudgetInv
<1> SUFFICES ASSUME Init PROVE BudgetInv
  OBVIOUS
<1>1. UploadsInv
  BY InitGood
<1>2. \A u \in Uploads : up[u] = Unused /\ up[u].stage # "open"
  BY DEF Init, Unused
<1>3. OpenOf(up) = {} /\ \A dir \in Dirs : Landing(up, dir) = {}
  BY <1>2 DEF OpenOf, Landing
<1>4. Cardinality(OpenOf(up)) <= AtOnce
  BY <1>3, FS_EmptySet, MostNat
<1>5. \A u \in Uploads : InLimit(up[u])
  BY <1>2 DEF InLimit
<1>6. ASSUME NEW dir \in Dirs PROVE Worth(imports, up, dir, {}) = {}
  <2>1. ASSUME NEW n \in Names PROVE 1..imports[<<dir, n>>].size = {}
    <3>1. imports[<<dir, n>>].size = 0
      BY DEF Init, NoFile, Paths
    <3> QED
      BY <3>1
  <2> QED
    BY <2>1 DEF Worth, FilePieces, Named, MayLand
<1>7. Budget(imports, up)
  BY <1>3, <1>6, FS_EmptySet, MostNat DEF Budget
<1>8. NotYet(user, up, conn)
  <2>1. \A c \in Connections : conn[c].dir = Nowhere
    BY DEF Init, Idle
  <2> QED
    BY <1>2, <2>1, UploadsAssumption DEF NotYet
<1> QED
  BY <1>4, <1>5, <1>7, <1>8 DEF BudgetInv

LEMMA IdleDirs ==
    ASSUME NEW c \in Connections, NEW n
    PROVE  /\ Idle.dir \in {conn[c].dir, user, Nowhere}
           /\ \A runs : [Idle EXCEPT !.runs = runs, !.dir = user].dir \in {conn[c].dir, user, Nowhere}
           /\ [Idle EXCEPT !.runs = "import", !.dir = user, !.name = n].dir \in {conn[c].dir, user, Nowhere}
BY DEF Idle

LEMMA SameDirs == \A c \in Connections : conn[c].dir \in {conn[c].dir, user, Nowhere}
OBVIOUS

LEMMA ExecBudget ==
    ASSUME UploadsInv, BudgetInv, NEW c \in Connections, Exec(c)
    PROVE  BudgetInv'
<1>1. ASSUME NEW n \in Names, ImportUpload(c, n) PROVE BudgetInv'
  <2> DEFINE p == [Idle EXCEPT !.runs = "import", !.dir = user, !.name = n]
  <2>1. p.dir \in {conn[c].dir, user, Nowhere}
    BY IdleDirs
  <2>2. Becomes(imports, up, [conn EXCEPT ![c] = p]) /\ UNCHANGED user
    BY <1>1 DEF ImportUpload
  <2> HIDE DEF p
  <2> QED
    BY <2>1, <2>2, StartsBudget
<1>2. ASSUME NEW asks \in BOOLEAN, ImportEnds(c, asks) PROVE BudgetInv'
  <2> DEFINE k == [conn EXCEPT ![c] = Idle]
             q == <<conn[c].dir, conn[c].name>>
  <2>1. \A x \in Connections : k[x].dir \in {conn[x].dir, user, Nowhere}
    BY IdleDirs, StartedDir
  <2>2. CASE asks
    BY <1>2, <2>2, IdleDirs, StartsBudget DEF ImportEnds
  <2>3. CASE ~asks
    <3>1. Becomes([imports EXCEPT ![q] = NoFile], up, k) /\ UNCHANGED user
      BY <1>2, <2>3 DEF ImportEnds
    <3> HIDE DEF k, q
    <3> QED
      BY <2>1, <3>1, RemovesBudget
  <2> QED
    BY <2>2, <2>3
<1>3. ASSUME NEW n \in Names, DiscardUpload(c, n) PROVE BudgetInv'
  BY <1>3, SameDirs, RemovesBudget DEF DiscardUpload
<1> QED
  BY <1>1, <1>2, <1>3 DEF Exec

LEMMA SftpBudget ==
    ASSUME UploadsInv, BudgetInv, NEW c \in Connections, Sftp(c)
    PROVE  BudgetInv'
<1>1. CASE RunSftpSession(c)
  <2> DEFINE p == [Idle EXCEPT !.runs = "sftp", !.dir = user]
  <2>1. p.dir \in {conn[c].dir, user, Nowhere}
    BY IdleDirs
  <2>2. Becomes(imports, up, [conn EXCEPT ![c] = p]) /\ UNCHANGED user
    BY <1>1 DEF RunSftpSession
  <2> HIDE DEF p
  <2> QED
    BY <2>1, <2>2, StartsBudget
<1>2. CASE SftpEnds(c)
  <2> DEFINE v == [u \in Uploads |-> IF u \in OpenBy(c) THEN CloseFile(up[u]) ELSE up[u]]
             k == [conn EXCEPT ![c] = Idle]
  <2>1. \A u \in Uploads : Kept(v[u], up[u])
    BY SameKept, ClosedKept
  <2>2. \A x \in Connections : k[x].dir \in {conn[x].dir, user, Nowhere}
    BY IdleDirs, StartedDir
  <2>3. Answers("", imports, v, k) /\ UNCHANGED user
    BY <1>2 DEF SftpEnds, Becomes
  <2> HIDE DEF v, k
  <2> QED
    BY <2>1, <2>2, <2>3, UploadsBudget
<1>3. ASSUME NEW n \in Names, OpenForWriting(c, n) PROVE BudgetInv'
  <2>1. PICK limit \in Nat : /\ limit = SftpUploadLimit(SftpImportsBytesUsed(conn[c].dir, n))
                             /\ CreatesTemp(c, n, limit)
    BY <1>3, MostNat DEF OpenForWriting
  <2>2. conn[c].dir \in Dirs
    BY <1>3 DEF OpenForWriting, UploadsInv, GoodConns, GoodProcess, Writing
  <2>3. limit <= SftpUploadLimit(SftpImportsBytesUsed(conn[c].dir, n)) /\ UNCHANGED user
    BY <1>3, <2>1 DEF OpenForWriting
  <2> QED
    BY <2>1, <2>2, <2>3, OpensBudget
<1>4. ASSUME NEW n \in Names, RemoveFile(c, n) PROVE BudgetInv'
  BY <1>4, SameDirs, RemovesBudget DEF RemoveFile
<1>5. ASSUME NEW u \in Uploads, Write(c, u) PROVE BudgetInv'
  <2>1. up[u].size \in Nat /\ up[u].limit \in Nat /\ UNCHANGED user
    BY <1>5, RecordsTyped DEF Write
  <2>2. PICK at \in {up[u].size, up[u].size + 1} : \E rec \in Written(up[u], at) :
          Becomes(imports, [up EXCEPT ![u] = rec], conn)
    BY <1>5 DEF Write
  <2>3. PICK rec \in Written(up[u], at) : Becomes(imports, [up EXCEPT ![u] = rec], conn)
    BY <2>2
  <2>4. \/ rec = Lost(up[u])
        \/ rec = Stored(up[u]) /\ up[u].size < up[u].limit
    BY <2>1, <2>2, <2>3 DEF Written, Fits
  <2> QED
    BY <2>1, <2>3, <2>4, WriteBudget
<1>6. ASSUME NEW u \in Uploads, Close(c, u) PROVE BudgetInv'
  BY <1>6, FinishesBudget DEF Close, OpenBy
<1> QED
  BY <1>1, <1>2, <1>3, <1>4, <1>5, <1>6 DEF Sftp

LEMMA ScpBudget ==
    ASSUME UploadsInv, BudgetInv, NEW c \in Connections, Scp(c)
    PROVE  BudgetInv'
<1>1. CASE Receive(c)
  <2> DEFINE p == [Idle EXCEPT !.runs = "scp -t", !.dir = user]
  <2>1. p.dir \in {conn[c].dir, user, Nowhere}
    BY IdleDirs
  <2>2. Becomes(imports, up, [conn EXCEPT ![c] = p]) /\ UNCHANGED user
    BY <1>1 DEF Receive
  <2> HIDE DEF p
  <2> QED
    BY <2>1, <2>2, StartsBudget
<1>2. ASSUME NEW b \in BOOLEAN
      PROVE  /\ \A x \in Connections : [conn EXCEPT ![c].failed = b][x].dir = conn[x].dir
             /\ \A x \in Connections : [conn EXCEPT ![c].failed = b][x].dir \in {conn[x].dir, user, Nowhere}
  <2>1. \A x \in Connections : conn[x] \in Process
    BY DEF UploadsInv, GoodConns, GoodProcess
  <2>2. \A x \in Connections : [conn EXCEPT ![c].failed = b][x].dir = conn[x].dir
    BY <2>1 DEF UploadsInv, GoodConns, Process
  <2> QED
    BY <2>2
<1>3. ASSUME Becomes(imports, up, [conn EXCEPT ![c].failed = TRUE]), UNCHANGED user PROVE BudgetInv'
  <2> DEFINE k == [conn EXCEPT ![c].failed = TRUE]
  <2>1. \A x \in Connections : k[x].dir \in {conn[x].dir, user, Nowhere}
    BY <1>2
  <2>2. Answers("", imports, up, k)
    BY <1>3 DEF Becomes
  <2> HIDE DEF k
  <2> QED
    BY <1>3, <2>1, <2>2, SameKept, UploadsBudget
<1>4. CASE SkipsFile(c)
  BY <1>3, <1>4 DEF SkipsFile
<1>5. CASE ScpEnds(c)
  <2> DEFINE v == [u \in Uploads |-> IF u \in OpenBy(c) THEN CloseFile(up[u]) ELSE up[u]]
             k == [conn EXCEPT ![c] = Idle]
  <2>1. \A u \in Uploads : Kept(v[u], up[u])
    BY SameKept, ClosedKept
  <2>2. \A x \in Connections : k[x].dir \in {conn[x].dir, user, Nowhere}
    BY IdleDirs, StartedDir
  <2>3. PICK what : Answers(what, imports, v, k)
    BY <1>5 DEF ScpEnds
  <2>4. UNCHANGED user
    BY <1>5 DEF ScpEnds
  <2> HIDE DEF v, k
  <2> QED
    BY <2>1, <2>2, <2>3, <2>4, UploadsBudget
<1>6. ASSUME NEW n \in Names, Send(c, n) PROVE BudgetInv'
  <2>1. PICK status : Answers(status, imports, up, conn)
    BY <1>6 DEF Send
  <2>2. UNCHANGED user
    BY <1>6 DEF Send
  <2> QED
    BY <2>1, <2>2, SameKept, SameDirs, UploadsBudget
<1>7. ASSUME NEW n \in Names, NEW size \in Smallest..Longest, ReceiveFile(c, n, size) PROVE BudgetInv'
  <2>1. conn[c].runs = "scp -t" /\ UNCHANGED user
    BY <1>7 DEF ReceiveFile
  <2>2. CASE FileFits(size, conn[c].dir, n) /\ CreatesTemp(c, n, size)
    <3>1. Smallest \in Nat /\ Longest \in Nat
      BY UploadsAssumption
    <3>2. size \in Nat
      BY <3>1
    <3>3. conn[c].dir \in Dirs
      BY <2>1 DEF UploadsInv, GoodConns, GoodProcess, Writing
    <3>4. size <= SftpUploadLimit(SftpImportsBytesUsed(conn[c].dir, n))
      BY <2>2 DEF FileFits
    <3> QED
      BY <2>1, <2>2, <3>2, <3>3, <3>4, OpensBudget
  <2>3. CASE Becomes(imports, up, [conn EXCEPT ![c].failed = TRUE])
    BY <1>3, <2>1, <2>3
  <2> QED
    BY <1>7, <2>2, <2>3 DEF ReceiveFile
<1>8. ASSUME NEW u \in Uploads, ReceiveChunk(c, u) PROVE BudgetInv'
  <2>1. PICK rec \in {Stored(up[u]), Lost(up[u])} : Becomes(imports, [up EXCEPT ![u] = rec], conn)
    BY <1>8 DEF ReceiveChunk, Chunks
  <2>2. up[u].size < up[u].limit /\ UNCHANGED user
    BY <1>8 DEF ReceiveChunk
  <2> QED
    BY <2>1, <2>2, WriteBudget
<1>9. ASSUME NEW u \in Uploads, NEW word \in {"sent", "error", "gone"}, ReceiveEnds(c, u, word) PROVE BudgetInv'
  <2> DEFINE b == conn[c].failed \/ word = "error" \/ (word = "sent" /\ ~Moves(u))
             k == [conn EXCEPT ![c].failed = b]
  <2>1. b \in BOOLEAN
    OBVIOUS
  <2>2. Finishes(u, word = "sent", k) /\ UNCHANGED user /\ Open(u)
    BY <1>9 DEF ReceiveEnds, OpenBy
  <2> HIDE DEF b
  <2>3. \A x \in Connections : k[x].dir = conn[x].dir
    BY <1>2, <2>1
  <2> HIDE DEF k
  <2> QED
    BY <2>2, <2>3, FinishesBudget
<1> QED
  BY <1>1, <1>4, <1>5, <1>6, <1>7, <1>8, <1>9 DEF Scp

LEMMA OthersBudget ==
    ASSUME UploadsInv, BudgetInv,
           \/ \E c \in Connections : Dies(c)
           \/ \E p \in Paths : RemovesOldFile(p)
           \/ \E u \in Uploads : RemovesOldTemp(u)
    PROVE  BudgetInv'
<1>1. ASSUME NEW c \in Connections, Dies(c) PROVE BudgetInv'
  <2> DEFINE v == [u \in Uploads |-> IF u \in OpenBy(c) THEN LeftOf(up[u], "stray") ELSE up[u]]
             k == [conn EXCEPT ![c] = Idle]
  <2>1. \A u \in Uploads : Kept(v[u], up[u])
    BY SameKept, ClosedKept
  <2>2. \A x \in Connections : k[x].dir \in {conn[x].dir, user, Nowhere}
    BY IdleDirs, StartedDir
  <2>3. Answers("", imports, v, k) /\ UNCHANGED user
    BY <1>1 DEF Dies, Becomes
  <2> HIDE DEF v, k
  <2> QED
    BY <2>1, <2>2, <2>3, UploadsBudget
<1>2. ASSUME NEW p \in Paths, RemovesOldFile(p) PROVE BudgetInv'
  BY <1>2, SameDirs, RemovesBudget DEF RemovesOldFile
<1>3. ASSUME NEW u \in Uploads, RemovesOldTemp(u) PROVE BudgetInv'
  <2> DEFINE v == [up EXCEPT ![u].temp = Nowhere]
  <2>1. \A w \in Uploads : Kept(v[w], up[w])
    <3>1. up[u] \in Record /\ Kept(up[u], up[u])
      BY RecordsTyped, SameKept
    <3>2. ~(Open(u) /\ Nowhere = up[u].dir)
      BY RecordsTyped, UploadsAssumption
    <3>3. Kept([up[u] EXCEPT !.temp = Nowhere], up[u])
      BY <3>1, <3>2 DEF Kept, Record, Open
    <3> QED
      BY <3>3, SameKept DEF UploadsInv, GoodUploads
  <2>2. Answers("", imports, v, conn) /\ UNCHANGED user
    BY <1>3 DEF RemovesOldTemp, Becomes
  <2> HIDE DEF v
  <2> QED
    BY <2>1, <2>2, SameDirs, UploadsBudget
<1> QED
  BY <1>1, <1>2, <1>3

LEMMA NextBudget ==
    ASSUME UploadsInv, BudgetInv, [Next]_vars
    PROVE  BudgetInv'
<1>1. CASE Next
  BY <1>1, SftpBudget, ScpBudget, ExecBudget, MovesBudget, OthersBudget DEF Next
<1>2. CASE UNCHANGED vars
  <2>1. /\ OpenOf(up)' = OpenOf(up) /\ Budget(imports, up)' = Budget(imports, up)
        /\ NotYet(user, up, conn)' = NotYet(user, up, conn)
    BY <1>2 DEF vars, OpenOf, Budget, Landing, Worth, FilePieces, MayLand, Named, NotYet
  <2>2. \A u \in Uploads : InLimit(up[u])'
    BY <1>2 DEF vars, BudgetInv, InLimit
  <2> QED
    BY <2>1, <2>2 DEF BudgetInv
<1> QED
  BY <1>1, <1>2

(* The budget is kept: what is in a folder, with all that may still land there, *)
(* is a file's worth over for each upload at once after the first.             *)
THEOREM BudgetInvAlways == Spec => [](UploadsInv /\ BudgetInv)
<1>1. UploadsInv /\ BudgetInv /\ [Next]_vars => (UploadsInv /\ BudgetInv)'
  BY NextGood, NextBudget
<1> QED
  BY InitGood, InitBudget, <1>1, PTL DEF Spec

(* WithinOneFile: the limit an upload is given when it is opened holds for the   *)
(* whole folder whenever it is closed, but for a file's worth for each other    *)
(* upload at once (SftpUploadLimit, OpenForWriting, ReceiveFile).             *)
THEOREM FolderBound == Spec => []WithinOneFile
<1>1. UploadsInv /\ BudgetInv => WithinOneFile
  <2> SUFFICES ASSUME UploadsInv, BudgetInv, NEW dir \in Dirs
               PROVE  FilesSize(dir, Names) <= Most
    BY DEF WithinOneFile, Most
  <2>1. Cardinality(Worth(imports, up, dir, {})) <= Most
    BY DEF BudgetInv, Budget
  <2>2. Worth(imports, up, dir, {}) = PiecesOf(dir, Names)
    BY DEF Worth, FilePieces, MayLand, Named, PiecesOf
  <2> QED
    BY <2>1, <2>2 DEF FilesSize
<1> QED
  BY <1>1, BudgetInvAlways, PTL

-----------------------------------------------------------------------------
(* What goes on a line: sequences, whatever is in them.                    *)

IsLine(s) == \E S : s \in Seq(S)
LEMMA LineIs == ASSUME NEW s, IsLine(s) PROVE Len(s) \in Nat /\ DOMAIN s = 1..Len(s)
  <1>1. PICK S : s \in Seq(S) BY DEF IsLine
  <1> QED BY <1>1, LenProperties

LEMMA InSomeSet == ASSUME NEW s, IsLine(s), NEW u, IsLine(u), NEW e PROVE \E S : s \in Seq(S) /\ u \in Seq(S) /\ e \in S
  <1>1. PICK S : s \in Seq(S) BY DEF IsLine
  <1>2. PICK U : u \in Seq(U) BY DEF IsLine
  <1> DEFINE All == S \cup U \cup {e}
  <1>3. S \subseteq All /\ U \subseteq All /\ e \in All OBVIOUS
  <1> HIDE DEF All
  <1>4. s \in Seq(All) BY <1>1, <1>3, SeqMonotonic
  <1>5. u \in Seq(All) BY <1>2, <1>3, SeqMonotonic
  <1> QED BY <1>3, <1>4, <1>5

LEMMA EmptyLine == IsLine(<< >>) /\ Len(<< >>) = 0
  <1>1. << >> \in Seq({0}) BY EmptySeq
  <1> QED BY <1>1, EmptySeq DEF IsLine

LEMMA NoneInIt == ASSUME NEW s, IsLine(s) PROVE s = << >> <=> Len(s) = 0
  <1>1. PICK S : s \in Seq(S) BY DEF IsLine
  <1> QED BY <1>1, EmptySeq

LEMMA OneLine == ASSUME NEW e PROVE IsLine(<<e>>) /\ Len(<<e>>) = 1 /\ <<e>>[1] = e
  <1>1. <<e>> \in Seq({e}) OBVIOUS
  <1> QED BY <1>1 DEF IsLine

LEMMA TwoLine == ASSUME NEW d, NEW e PROVE IsLine(<<d, e>>) /\ Len(<<d, e>>) = 2 /\ <<d, e>>[1] = d /\ <<d, e>>[2] = e
  <1>1. <<d, e>> \in Seq({d, e}) OBVIOUS
  <1> QED BY <1>1 DEF IsLine

LEMMA TailLine ==
  ASSUME NEW s, IsLine(s), s # << >>
  PROVE  /\ IsLine(Tail(s)) /\ Len(s) >= 1 /\ Len(Tail(s)) = Len(s) - 1 /\ Head(s) = s[1]
         /\ \A i \in 1..Len(s) - 1 : Tail(s)[i] = s[i + 1]
  <1>1. PICK S : s \in Seq(S) BY DEF IsLine
  <1>2. Len(s) \in Nat \ {0} BY <1>1, EmptySeq
  <1>3. Tail(s) \in Seq(S) /\ Len(Tail(s)) = Len(s) - 1 /\ \A i \in 1..Len(Tail(s)) : Tail(s)[i] = s[i + 1]
        BY <1>1, HeadTailProperties
  <1>4. Head(s) = s[1] BY <1>1
  <1> QED BY <1>2, <1>3, <1>4 DEF IsLine

LEMMA ConcatLine ==
  ASSUME NEW s, IsLine(s), NEW u, IsLine(u)
  PROVE  /\ IsLine(s \o u) /\ Len(s \o u) = Len(s) + Len(u)
         /\ \A i \in 1..Len(s) + Len(u) : (s \o u)[i] = IF i <= Len(s) THEN s[i] ELSE u[i - Len(s)]
  <1>1. PICK S : s \in Seq(S) /\ u \in Seq(S) BY InSomeSet
  <1>2. s \o u \in Seq(S) BY <1>1, ConcatProperties
  <1> QED BY <1>1, <1>2, ConcatProperties DEF IsLine

LEMMA AppendLine ==
  ASSUME NEW s, IsLine(s), NEW e
  PROVE  Append(s, e) = s \o <<e>>
  <1>1. PICK S : s \in Seq(S) /\ e \in S BY InSomeSet
  <1> QED BY <1>1, AppendIsConcat

LEMMA ExceptLine ==
  ASSUME NEW s, IsLine(s), NEW n \in DOMAIN s, NEW e
  PROVE  /\ IsLine([s EXCEPT ![n] = e]) /\ Len([s EXCEPT ![n] = e]) = Len(s)
         /\ \A j \in 1..Len(s) : [s EXCEPT ![n] = e][j] = IF j = n THEN e ELSE s[j]
  <1>1. PICK S : s \in Seq(S) /\ e \in S BY InSomeSet
  <1>2. n \in 1..Len(s) BY LineIs
  <1>3. [s EXCEPT ![n] = e] \in Seq(S) BY <1>1, <1>2, ExceptSeq
  <1> QED BY <1>1, <1>2, <1>3, ExceptSeq DEF IsLine

LEMMA RemoveLine ==
  ASSUME NEW s, IsLine(s), NEW n \in DOMAIN s
  PROVE  /\ IsLine(RemoveAt(s, n)) /\ Len(RemoveAt(s, n)) = Len(s) - 1
         /\ \A i \in 1..Len(s) - 1 : RemoveAt(s, n)[i] = IF i < n THEN s[i] ELSE s[i + 1]
  <1>1. PICK S : s \in Seq(S) BY DEF IsLine
  <1>2. Len(s) \in Nat /\ n \in 1..Len(s) BY LineIs
  <1>3. \A i \in 1..Len(s) : s[i] \in S BY <1>1, ElementOfSeq
  <1> DEFINE a == SubSeq(s, 1, n - 1)
             b == SubSeq(s, n + 1, Len(s))
  <1>4. a \in Seq(S) /\ Len(a) = n - 1 /\ \A i \in 1..n - 1 : a[i] = s[i]
    <2>1. \A i \in 1..n - 1 : s[i] \in S BY <1>2, <1>3
    <2>2. /\ SubSeq(s, 1, n - 1) \in Seq(S) /\ Len(SubSeq(s, 1, n - 1)) = IF 1 <= n - 1 THEN n - 1 - 1 + 1 ELSE 0
          /\ \A i \in 1..n - 1 - 1 + 1 : SubSeq(s, 1, n - 1)[i] = s[1 + i - 1]
          BY <1>2, <2>1, SubSeqProperties
    <2> QED BY <1>2, <2>2
  <1>5. b \in Seq(S) /\ Len(b) = Len(s) - n /\ \A i \in 1..Len(s) - n : b[i] = s[n + i]
    <2>1. \A i \in n + 1..Len(s) : s[i] \in S BY <1>2, <1>3
    <2>2. /\ SubSeq(s, n + 1, Len(s)) \in Seq(S)
          /\ Len(SubSeq(s, n + 1, Len(s))) = IF n + 1 <= Len(s) THEN Len(s) - (n + 1) + 1 ELSE 0
          /\ \A i \in 1..Len(s) - (n + 1) + 1 : SubSeq(s, n + 1, Len(s))[i] = s[n + 1 + i - 1]
      <3>1. n + 1 \in Int /\ Len(s) \in Int BY <1>2
      <3> DEFINE lo == n + 1
                 hi == Len(s)
      <3>2. lo \in Int /\ hi \in Int /\ \A i \in lo..hi : s[i] \in S BY <3>1, <2>1
      <3> HIDE DEF lo, hi
      <3>3. /\ SubSeq(s, lo, hi) \in Seq(S) /\ Len(SubSeq(s, lo, hi)) = IF lo <= hi THEN hi - lo + 1 ELSE 0
            /\ \A i \in 1..hi - lo + 1 : SubSeq(s, lo, hi)[i] = s[lo + i - 1]
            BY <3>2, SubSeqProperties
      <3> QED BY <3>3 DEF lo, hi
    <2>3. \A i \in 1..Len(s) - n : i \in 1..Len(s) - (n + 1) + 1 /\ n + 1 + i - 1 = n + i BY <1>2
    <2>4. Len(s) - (n + 1) + 1 = Len(s) - n /\ (n + 1 <= Len(s) \/ Len(s) - n = 0) BY <1>2
    <2> QED BY <1>2, <2>2, <2>3, <2>4
  <1>6. RemoveAt(s, n) = a \o b BY DEF RemoveAt
  <1> HIDE DEF a, b
  <1>7. IsLine(a) /\ IsLine(b) BY <1>4, <1>5 DEF IsLine
  <1>8. /\ IsLine(a \o b) /\ Len(a \o b) = Len(a) + Len(b)
        /\ \A i \in 1..Len(a) + Len(b) : (a \o b)[i] = IF i <= Len(a) THEN a[i] ELSE b[i - Len(a)]
        BY <1>7, ConcatLine
  <1> DEFINE c == a \o b
  <1>10. \A i \in 1..Len(a) + Len(b) : c[i] = IF i <= Len(a) THEN a[i] ELSE b[i - Len(a)] BY <1>8
  <1>11. RemoveAt(s, n) = c /\ IsLine(c) /\ Len(c) = Len(a) + Len(b) BY <1>6, <1>8
  <1> HIDE DEF c
  <1>9. ASSUME NEW i \in 1..Len(s) - 1 PROVE c[i] = IF i < n THEN s[i] ELSE s[i + 1]
    <2>1. CASE i < n BY <2>1, <1>2, <1>4, <1>5, <1>10
    <2>2. CASE i >= n
      <3>1. i - Len(a) \in 1..Len(s) - n /\ ~(i <= Len(a)) /\ n + (i - Len(a)) = i + 1 BY <1>2, <1>4, <2>2
      <3>2. c[i] = b[i - Len(a)]
        <4>1. i \in 1..Len(a) + Len(b) BY <1>2, <1>4, <1>5
        <4> QED BY <1>10, <3>1, <4>1
      <3> QED BY <1>2, <1>5, <3>1, <3>2, <2>2
    <2>3. i < n \/ i >= n BY <1>2
    <2> QED BY <2>3, <2>1, <2>2
  <1> QED BY <1>2, <1>4, <1>5, <1>9, <1>11

-----------------------------------------------------------------------------
(* What may be said of a line.                                             *)

(* A garbled header, or a cancel: no offer, no data, no end of a batch.     *)
Quiet(e) == e.t \in {"five ZDLEs", "bad header", "noise"}
(* Noise in a subpacket.                                                    *)
Spoilt(e) == e.t \in {"bad data", "runs on"}
Offering(e) == e.t \in {"ZFILE", "info"}

(* There is a header or subpacket t on the line; before a u.                *)
HasA(s, t) == \E n \in DOMAIN s : s[n].t = t
HasOffer(s) == \E n \in DOMAIN s : Offering(s[n])
Precedes(s, t, u) == \E m, n \in DOMAIN s : m < n /\ s[m].t = t /\ s[n].t = u
(* Every position asked for is in the file.                                 *)
Positions(s, f) == \A n \in DOMAIN s : s[n].t = "ZRPOS" => s[n].position \in 0..Sizes[f]

(* The only file offered is f, and nothing but noise follows the offer.     *)
OfferLine(s, f) ==
    \A n \in DOMAIN s : s[n].t = "info" => /\ s[n] = Subpacket("info", <<f>>, TRUE)
                                          /\ \A m \in DOMAIN s : m > n => Quiet(s[m])
LastOffer(s) == \A n \in DOMAIN s : s[n].t = "info" => n = Len(s)

(* What SendData sends for position p of file f; whether a subpacket may    *)
(* follow, and the position that it then is for.                            *)
DataAt(f, p) == Subpacket("data", IF p = Sizes[f] THEN << >> ELSE <<<<f, p + 1>>>>, p + 1 >= Sizes[f])
Opens(e) == e.t = "ZDATA" \/ (e.t = "data" /\ ~e.last)
After(e) == IF e.t = "ZDATA" THEN e.position ELSE e.blocks[1][2]
Continues(f, p, e) == e.t = "data" => e = DataAt(f, p)
(* Nothing on the line but of file f, and each subpacket at the position    *)
(* that the header or subpacket before it leads to.                         *)
OfFile(f, e) ==
    \/ Quiet(e) \/ Spoilt(e)
    \/ e.t = "ZDATA" /\ e.position \in 0..Sizes[f]
    \/ e.t = "data" /\ \E p \in 0..Sizes[f] : e = DataAt(f, p)
    \/ e.t = "ZEOF" /\ e.position = Sizes[f]
FileLine(s, f) ==
    \A n \in DOMAIN s : /\ OfFile(f, s[n])
                        /\ n + 1 \in DOMAIN s /\ Opens(s[n]) => Continues(f, After(s[n]), s[n + 1])
(* What the line holds leads to position p; it starts with that of p.       *)
EndsAt(s, p) == s # << >> /\ Opens(s[Len(s)]) => After(s[Len(s)]) = p
StartsAt(s, f, p) == s # << >> => Continues(f, p, s[1])

LEMMA QuietIs == ASSUME NEW e, Quiet(e) \/ Spoilt(e)
                 PROVE /\ e.t \notin {"ZFILE", "info", "ZFIN", "ZDATA", "data", "ZRPOS", "ZRINIT", "ZSKIP"}
                       /\ ~Offering(e) /\ ~Opens(e) /\ \A f : OfFile(f, e) /\ \A p : Continues(f, p, e)
  BY DEF Quiet, Spoilt, Offering, Opens, OfFile, Continues

LEMMA HasTail ==
  ASSUME NEW s, IsLine(s), s # << >>
  PROVE  /\ \A t : HasA(s, t) <=> Head(s).t = t \/ HasA(Tail(s), t)
         /\ \A t, u : Precedes(Tail(s), t, u) \/ (Head(s).t = t /\ HasA(Tail(s), u)) => Precedes(s, t, u)
         /\ HasOffer(s) <=> Offering(Head(s)) \/ HasOffer(Tail(s))
         /\ \A f : Positions(s, f) => /\ Head(s).t = "ZRPOS" => Head(s).position \in 0..Sizes[f]
                                      /\ Positions(Tail(s), f)
  <1> DEFINE r == Tail(s)
  <1>1. /\ IsLine(r) /\ Len(s) >= 1 /\ Len(r) = Len(s) - 1 /\ Head(s) = s[1]
        /\ \A i \in 1..Len(s) - 1 : r[i] = s[i + 1]
        BY TailLine
  <1> HIDE DEF r
  <1>2. Len(s) \in Nat /\ Len(r) \in Nat /\ DOMAIN s = 1..Len(s) /\ DOMAIN r = 1..Len(r) BY <1>1, LineIs
  <1>3. 1 \in DOMAIN s /\ Head(s) = s[1] BY <1>1, <1>2
  <1>4. \A i \in DOMAIN r : i + 1 \in DOMAIN s /\ r[i] = s[i + 1] /\ i + 1 > 1 /\ i \in Int BY <1>1, <1>2
  <1>5. \A i \in DOMAIN s : i = 1 \/ (i - 1 \in DOMAIN r /\ s[i] = r[i - 1]) BY <1>1, <1>2
  <1>6. \A t : HasA(s, t) <=> Head(s).t = t \/ HasA(r, t) BY <1>3, <1>4, <1>5 DEF HasA
  <1>7. HasOffer(s) <=> Offering(Head(s)) \/ HasOffer(r) BY <1>3, <1>4, <1>5 DEF HasOffer
  <1>8. ASSUME NEW f, Positions(s, f)
        PROVE  (Head(s).t = "ZRPOS" => Head(s).position \in 0..Sizes[f]) /\ Positions(r, f)
        BY <1>8, <1>3, <1>4 DEF Positions
  <1>9. ASSUME NEW t, NEW u, Precedes(r, t, u) PROVE Precedes(s, t, u)
    <2>1. PICK m \in DOMAIN r, n \in DOMAIN r : m < n /\ r[m].t = t /\ r[n].t = u BY <1>9 DEF Precedes
    <2>2. m + 1 < n + 1 BY <2>1, <1>4
    <2> QED BY <2>1, <2>2, <1>4 DEF Precedes
  <1>10. ASSUME NEW t, NEW u, Head(s).t = t, HasA(r, u) PROVE Precedes(s, t, u)
    <2>1. PICK n \in DOMAIN r : r[n].t = u BY <1>10 DEF HasA
    <2> QED BY <2>1, <1>3, <1>4, <1>10 DEF Precedes
  <1> QED BY <1>6, <1>7, <1>8, <1>9, <1>10 DEF r

LEMMA PrecedesHas == ASSUME NEW s, NEW t, NEW u, Precedes(s, t, u) PROVE HasA(s, t) /\ HasA(s, u)
  BY DEF Precedes, HasA

LEMMA HasConcat ==
  ASSUME NEW s, IsLine(s), NEW w, IsLine(w)
  PROVE  /\ \A t : HasA(s \o w, t) <=> HasA(s, t) \/ HasA(w, t)
         /\ HasOffer(s \o w) <=> HasOffer(s) \/ HasOffer(w)
         /\ \A t, u : Precedes(s \o w, t, u) => Precedes(s, t, u) \/ Precedes(w, t, u) \/ (HasA(s, t) /\ HasA(w, u))
         /\ \A f : Positions(s \o w, f) <=> Positions(s, f) /\ Positions(w, f)
  <1> DEFINE r == s \o w
  <1>1. /\ IsLine(r) /\ Len(r) = Len(s) + Len(w)
        /\ \A i \in 1..Len(s) + Len(w) : r[i] = IF i <= Len(s) THEN s[i] ELSE w[i - Len(s)]
        BY ConcatLine
  <1> HIDE DEF r
  <1>2. /\ Len(s) \in Nat /\ Len(w) \in Nat /\ DOMAIN s = 1..Len(s) /\ DOMAIN w = 1..Len(w)
        /\ DOMAIN r = 1..Len(s) + Len(w)
        BY <1>1, LineIs
  <1>3. \A i \in DOMAIN s : i \in DOMAIN r /\ r[i] = s[i] /\ i \in Int /\ i <= Len(s) BY <1>1, <1>2
  <1>4. \A i \in DOMAIN w : i + Len(s) \in DOMAIN r /\ r[i + Len(s)] = w[i] /\ i \in Int /\ i > 0
    <2> SUFFICES ASSUME NEW i \in DOMAIN w PROVE i + Len(s) \in DOMAIN r /\ r[i + Len(s)] = w[i] /\ i \in Int /\ i > 0
        OBVIOUS
    <2>1. i + Len(s) \in 1..Len(s) + Len(w) /\ ~(i + Len(s) <= Len(s)) /\ (i + Len(s)) - Len(s) = i BY <1>2
    <2>2. r[i + Len(s)] = w[(i + Len(s)) - Len(s)] BY <1>1, <2>1
    <2> QED BY <1>2, <2>1, <2>2
  <1>5. \A i \in DOMAIN r : \/ i \in DOMAIN s /\ r[i] = s[i]
                            \/ i - Len(s) \in DOMAIN w /\ r[i] = w[i - Len(s)] /\ i > Len(s) /\ i \in Int
        BY <1>1, <1>2
  <1>6. \A t : HasA(r, t) <=> HasA(s, t) \/ HasA(w, t) BY <1>3, <1>4, <1>5 DEF HasA
  <1>7. HasOffer(r) <=> HasOffer(s) \/ HasOffer(w) BY <1>3, <1>4, <1>5 DEF HasOffer
  <1>8. \A f : Positions(r, f) <=> Positions(s, f) /\ Positions(w, f) BY <1>3, <1>4, <1>5 DEF Positions
  <1>9. ASSUME NEW t, NEW u, Precedes(r, t, u)
        PROVE  Precedes(s, t, u) \/ Precedes(w, t, u) \/ (HasA(s, t) /\ HasA(w, u))
    <2>1. PICK m \in DOMAIN r, n \in DOMAIN r : m < n /\ r[m].t = t /\ r[n].t = u BY <1>9 DEF Precedes
    <2>2. CASE n \in DOMAIN s /\ r[n] = s[n]
      <3>1. m \in DOMAIN s /\ r[m] = s[m] BY <2>1, <2>2, <1>2, <1>3
      <3> QED BY <3>1, <2>1, <2>2 DEF Precedes
    <2>3. CASE n - Len(s) \in DOMAIN w /\ r[n] = w[n - Len(s)] /\ n > Len(s) /\ n \in Int
      <3>1. CASE m \in DOMAIN s /\ r[m] = s[m] BY <3>1, <2>1, <2>3 DEF HasA
      <3>2. CASE m - Len(s) \in DOMAIN w /\ r[m] = w[m - Len(s)] /\ m > Len(s) /\ m \in Int
        <4>1. m - Len(s) < n - Len(s) BY <2>1, <2>3, <3>2, <1>2
        <4> QED BY <4>1, <2>1, <2>3, <3>2 DEF Precedes
      <3> QED BY <1>5, <3>1, <3>2
    <2> QED BY <1>5, <2>2, <2>3
  <1> QED BY <1>6, <1>7, <1>8, <1>9 DEF r

LEMMA HasOne ==
  ASSUME NEW e
  PROVE  /\ \A t : HasA(<<e>>, t) <=> e.t = t
         /\ HasOffer(<<e>>) <=> Offering(e)
         /\ \A t, u : ~Precedes(<<e>>, t, u)
         /\ \A f : Positions(<<e>>, f) <=> (e.t = "ZRPOS" => e.position \in 0..Sizes[f])
  <1> DEFINE s == <<e>>
  <1>1. IsLine(s) /\ Len(s) = 1 /\ s[1] = e BY OneLine
  <1> HIDE DEF s
  <1>2. DOMAIN s = 1..1 BY <1>1, LineIs
  <1>3. \A n \in DOMAIN s : n = 1 BY <1>2
  <1>4. 1 \in DOMAIN s BY <1>2
  <1>5. \A t, u : ~Precedes(s, t, u) BY <1>3 DEF Precedes
  <1> QED BY <1>1, <1>3, <1>4, <1>5 DEF s, HasA, HasOffer, Positions

LEMMA HasNone ==
  /\ \A t : ~HasA(<< >>, t)
  /\ ~HasOffer(<< >>)
  /\ \A t, u : ~Precedes(<< >>, t, u)
  /\ \A f : Positions(<< >>, f)
  <1>1. DOMAIN << >> = 1..0 BY EmptyLine, LineIs
  <1> QED BY <1>1 DEF HasA, HasOffer, Precedes, Positions

LEMMA HasRemoved ==
  ASSUME NEW s, IsLine(s), NEW k \in DOMAIN s
  PROVE  /\ \A t : HasA(RemoveAt(s, k), t) => HasA(s, t)
         /\ \A t, u : Precedes(RemoveAt(s, k), t, u) => Precedes(s, t, u)
         /\ \A f : Positions(s, f) => Positions(RemoveAt(s, k), f)
  <1> DEFINE r == RemoveAt(s, k)
             At(i) == IF i < k THEN i ELSE i + 1
  <1>1. /\ IsLine(r) /\ Len(r) = Len(s) - 1
        /\ \A i \in 1..Len(s) - 1 : r[i] = IF i < k THEN s[i] ELSE s[i + 1]
        BY RemoveLine
  <1> HIDE DEF r
  <1>2. /\ Len(s) \in Nat /\ DOMAIN s = 1..Len(s) /\ DOMAIN r = 1..Len(s) - 1 BY <1>1, LineIs
  <1>3. \A i \in DOMAIN r : At(i) \in DOMAIN s /\ r[i] = s[At(i)] BY <1>1, <1>2
  <1>4. \A i, j \in DOMAIN r : i < j => At(i) < At(j) BY <1>2
  <1> HIDE DEF At
  <1>5. \A t : HasA(r, t) => HasA(s, t) BY <1>3 DEF HasA
  <1>6. ASSUME NEW t, NEW u, Precedes(r, t, u) PROVE Precedes(s, t, u) BY <1>3, <1>4, <1>6 DEF Precedes
  <1>7. \A f : Positions(s, f) => Positions(r, f) BY <1>3 DEF Positions
  <1> QED BY <1>5, <1>6, <1>7 DEF r

-----------------------------------------------------------------------------
(* Lines that lose their first element, or have something added.           *)

LEMMA NoOfferLine == ASSUME NEW s, ~HasOffer(s) PROVE LastOffer(s) /\ \A f : OfferLine(s, f)
  <1>1. \A n \in DOMAIN s : s[n].t # "info" BY DEF HasOffer, Offering
  <1> QED BY <1>1 DEF OfferLine, LastOffer

LEMMA OfferTail ==
  ASSUME NEW s, IsLine(s), s # << >>, NEW f, OfferLine(s, f)
  PROVE  /\ OfferLine(Tail(s), f)
         /\ Head(s).t = "info" => /\ Head(s) = Subpacket("info", <<f>>, TRUE)
                                  /\ \A n \in DOMAIN Tail(s) : Quiet(Tail(s)[n])
  <1> DEFINE r == Tail(s)
  <1>1. /\ IsLine(r) /\ Len(s) >= 1 /\ Len(r) = Len(s) - 1 /\ Head(s) = s[1]
        /\ \A i \in 1..Len(s) - 1 : r[i] = s[i + 1]
        BY TailLine
  <1> HIDE DEF r
  <1>2. Len(s) \in Nat /\ Len(r) \in Nat /\ DOMAIN s = 1..Len(s) /\ DOMAIN r = 1..Len(r) BY <1>1, LineIs
  <1>3. 1 \in DOMAIN s /\ Head(s) = s[1] BY <1>1, <1>2
  <1>4. \A i \in DOMAIN r : i + 1 \in DOMAIN s /\ r[i] = s[i + 1] /\ i + 1 > 1 /\ i \in Int BY <1>1, <1>2
  <1>5. \A i, j \in DOMAIN r : j > i => j + 1 > i + 1 BY <1>4
  <1>6. OfferLine(r, f) BY <1>4, <1>5 DEF OfferLine
  <1>8. Head(s).t = "info" => Head(s) = Subpacket("info", <<f>>, TRUE) /\ \A n \in DOMAIN r : Quiet(r[n])
        BY <1>3, <1>4 DEF OfferLine
  <1> QED BY <1>6, <1>8 DEF r

LEMMA LastTail ==
  ASSUME NEW s, IsLine(s), s # << >>, LastOffer(s)
  PROVE  /\ LastOffer(Tail(s))
         /\ Head(s).t = "info" => Tail(s) = << >>
  <1> DEFINE r == Tail(s)
  <1>1. /\ IsLine(r) /\ Len(s) >= 1 /\ Len(r) = Len(s) - 1 /\ Head(s) = s[1]
        /\ \A i \in 1..Len(s) - 1 : r[i] = s[i + 1]
        BY TailLine
  <1> HIDE DEF r
  <1>2. Len(s) \in Nat /\ Len(r) \in Nat /\ DOMAIN s = 1..Len(s) /\ DOMAIN r = 1..Len(r) BY <1>1, LineIs
  <1>3. 1 \in DOMAIN s /\ Head(s) = s[1] BY <1>1, <1>2
  <1>4. \A i \in DOMAIN r : i + 1 \in DOMAIN s /\ r[i] = s[i + 1] /\ i \in Int BY <1>1, <1>2
  <1>5. LastOffer(r) BY <1>1, <1>2, <1>4 DEF LastOffer
  <1>7. Head(s).t = "info" => Len(r) = 0 BY <1>1, <1>2, <1>3 DEF LastOffer
  <1>8. r = << >> <=> Len(r) = 0 BY <1>1, NoneInIt
  <1> QED BY <1>5, <1>7, <1>8 DEF r

(* Only the cancel's noise follows an offer; an offer is added where there is none. *)
(* A cancel may follow an offer.                                            *)
LEMMA OfferCancelled ==
  ASSUME NEW s, IsLine(s), NEW f, NEW e, Quiet(e)
  PROVE  OfferLine(s, f) => OfferLine(s \o <<e>>, f)
  <1> DEFINE r == s \o <<e>>
  <1>1. IsLine(<<e>>) /\ Len(<<e>>) = 1 /\ <<e>>[1] = e BY OneLine
  <1>2. /\ IsLine(r) /\ Len(r) = Len(s) + 1
        /\ \A i \in 1..Len(s) + 1 : r[i] = IF i <= Len(s) THEN s[i] ELSE <<e>>[i - Len(s)]
        BY <1>1, ConcatLine
  <1> HIDE DEF r
  <1>3. Len(s) \in Nat /\ DOMAIN s = 1..Len(s) /\ DOMAIN r = 1..Len(s) + 1 BY <1>2, LineIs
  <1>4. \A i \in DOMAIN r : (i \in DOMAIN s /\ r[i] = s[i]) \/ (i \notin DOMAIN s /\ r[i] = e) BY <1>1, <1>2, <1>3
  <1>5. e.t # "info" BY QuietIs
  <1>6. OfferLine(s, f) => OfferLine(r, f) BY <1>4, <1>5 DEF OfferLine
  <1> QED BY <1>6 DEF r

(* What SendFile sends, where nothing is offered yet.                       *)
LEMMA OfferSent ==
  ASSUME NEW s, IsLine(s), ~HasOffer(s), NEW f
  PROVE  LET w == <<Header("ZFILE", 0), Subpacket("info", <<f>>, TRUE)>>
         IN  /\ IsLine(w) /\ Len(w) = 2
             /\ OfferLine(s \o w, f) /\ LastOffer(s \o w) /\ \A t : HasA(w, t) => t \in {"ZFILE", "info"}
  <1> DEFINE z == Header("ZFILE", 0)
             i2 == Subpacket("info", <<f>>, TRUE)
             w == <<z, i2>>
             r == s \o w
  <1>0. z.t = "ZFILE" /\ i2.t = "info" BY DEF Header, Subpacket
  <1>9. i2 = Subpacket("info", <<f>>, TRUE) OBVIOUS
  <1> SUFFICES /\ IsLine(w) /\ Len(w) = 2 /\ OfferLine(r, f) /\ LastOffer(r)
               /\ \A t : HasA(w, t) => t \in {"ZFILE", "info"}
      OBVIOUS
  <1> HIDE DEF z, i2
  <1>1. IsLine(w) /\ Len(w) = 2 /\ w[1] = z /\ w[2] = i2 BY TwoLine
  <1> HIDE DEF w
  <1>2. /\ IsLine(r) /\ Len(r) = Len(s) + 2
        /\ \A i \in 1..Len(s) + 2 : r[i] = IF i <= Len(s) THEN s[i] ELSE w[i - Len(s)]
        BY <1>1, ConcatLine
  <1> HIDE DEF r
  <1>3. Len(s) \in Nat /\ DOMAIN s = 1..Len(s) /\ DOMAIN r = 1..Len(s) + 2 /\ DOMAIN w = 1..2 BY <1>1, <1>2, LineIs
  <1>4. r[Len(s) + 1] = z /\ r[Len(s) + 2] = i2 BY <1>1, <1>2, <1>3
  <1>5. \A i \in DOMAIN s : s[i].t # "info" /\ r[i] = s[i] BY <1>2, <1>3 DEF HasOffer, Offering
  <1>6. \A i \in DOMAIN r : i \in DOMAIN s \/ i = Len(s) + 1 \/ i = Len(s) + 2 BY <1>3
  <1>7. OfferLine(r, f)
    <2> SUFFICES ASSUME NEW n \in DOMAIN r
                 PROVE  /\ r[n].t = "info" => /\ r[n] = Subpacket("info", <<f>>, TRUE)
                                              /\ \A m \in DOMAIN r : m > n => Quiet(r[m])
        BY DEF OfferLine
    <2>1. CASE n \in DOMAIN s BY <2>1, <1>5
    <2>2. CASE n = Len(s) + 1
      <3> QED BY <2>2, <1>4, <1>0
    <2>3. CASE n = Len(s) + 2
      <3>1. \A m \in DOMAIN r : ~(m > n) BY <1>3, <2>3
      <3> QED BY <3>1, <2>3, <1>4, <1>0, <1>9
    <2> QED BY <1>6, <2>1, <2>2, <2>3
  <1>8. LastOffer(r) BY <1>0, <1>2, <1>3, <1>4, <1>5, <1>6 DEF LastOffer
  <1>11. \A t : HasA(w, t) => t \in {"ZFILE", "info"} BY <1>0, <1>1, <1>3 DEF HasA
  <1> QED BY <1>1, <1>7, <1>8, <1>11

LEMMA FileTail ==
  ASSUME NEW s, IsLine(s), s # << >>, NEW f, FileLine(s, f)
  PROVE  /\ FileLine(Tail(s), f) /\ OfFile(f, Head(s))
         /\ Opens(Head(s)) => StartsAt(Tail(s), f, After(Head(s)))
         /\ \A p : EndsAt(s, p) => EndsAt(Tail(s), p) /\ (Tail(s) = << >> /\ Opens(Head(s)) => After(Head(s)) = p)
  <1> DEFINE r == Tail(s)
  <1>1. /\ IsLine(r) /\ Len(s) >= 1 /\ Len(r) = Len(s) - 1 /\ Head(s) = s[1]
        /\ \A i \in 1..Len(s) - 1 : r[i] = s[i + 1]
        BY TailLine
  <1> HIDE DEF r
  <1>2. Len(s) \in Nat /\ Len(r) \in Nat /\ DOMAIN s = 1..Len(s) /\ DOMAIN r = 1..Len(r) BY <1>1, LineIs
  <1>3. 1 \in DOMAIN s /\ Head(s) = s[1] BY <1>1, <1>2
  <1>4. \A i \in DOMAIN r : i + 1 \in DOMAIN s /\ r[i] = s[i + 1] BY <1>1, <1>2
  <1>5. r = << >> <=> Len(r) = 0 BY <1>1, NoneInIt
  <1>6. FileLine(r, f) BY <1>4 DEF FileLine
  <1>7. OfFile(f, Head(s)) BY <1>3 DEF FileLine
  <1>8. ASSUME Opens(Head(s)), r # << >> PROVE Continues(f, After(Head(s)), r[1])
    <2>1. 1 \in DOMAIN r /\ 1 + 1 \in DOMAIN s /\ r[1] = s[1 + 1] BY <1>1, <1>2, <1>5, <1>8
    <2> QED BY <2>1, <1>3, <1>8 DEF FileLine
  <1>9. ASSUME NEW p, EndsAt(s, p) PROVE EndsAt(r, p) /\ (r = << >> /\ Opens(Head(s)) => After(Head(s)) = p)
    <2>1. s[Len(s)] = IF r = << >> THEN Head(s) ELSE r[Len(r)] BY <1>1, <1>2, <1>5
    <2>2. CASE r = << >> BY <1>9, <2>1, <2>2 DEF EndsAt
    <2>3. CASE r # << >>
      <3>1. s[Len(s)] = r[Len(r)] BY <2>1, <2>3
      <3> QED BY <3>1, <1>9, <2>3 DEF EndsAt
    <2> QED BY <2>2, <2>3
  <1> QED BY <1>6, <1>7, <1>8, <1>9 DEF r, StartsAt

(* More of the file may follow when the line leads to where it starts.      *)
LEMMA FileConcat ==
  ASSUME NEW s, IsLine(s), NEW w, IsLine(w), w # << >>, NEW f, NEW p, FileLine(s, f), FileLine(w, f),
         w[1].t = "data" => EndsAt(s, p) /\ StartsAt(w, f, p)
  PROVE  /\ FileLine(s \o w, f) /\ s \o w # << >>
         /\ \A q : EndsAt(w, q) => EndsAt(s \o w, q)
         /\ \A q : (s # << >> => StartsAt(s, f, q)) /\ (s = << >> => StartsAt(w, f, q)) => StartsAt(s \o w, f, q)
  <1> DEFINE r == s \o w
  <1>1. /\ IsLine(r) /\ Len(r) = Len(s) + Len(w)
        /\ \A i \in 1..Len(s) + Len(w) : r[i] = IF i <= Len(s) THEN s[i] ELSE w[i - Len(s)]
        BY ConcatLine
  <1> HIDE DEF r
  <1>2. /\ Len(s) \in Nat /\ Len(w) \in Nat /\ DOMAIN s = 1..Len(s) /\ DOMAIN w = 1..Len(w)
        /\ DOMAIN r = 1..Len(s) + Len(w)
        BY <1>1, LineIs
  <1>3. Len(w) > 0 /\ Len(r) > 0 /\ r # << >> /\ (s = << >> <=> Len(s) = 0) BY <1>1, <1>2, NoneInIt
  <1>4. \A i \in DOMAIN s : r[i] = s[i] BY <1>1, <1>2
  <1>5. \A i \in DOMAIN w : r[i + Len(s)] = w[i]
    <2> SUFFICES ASSUME NEW i \in DOMAIN w PROVE r[i + Len(s)] = w[i] OBVIOUS
    <2>1. i + Len(s) \in 1..Len(s) + Len(w) /\ ~(i + Len(s) <= Len(s)) /\ (i + Len(s)) - Len(s) = i BY <1>2
    <2> QED BY <1>1, <2>1
  <1>6. FileLine(r, f)
    <2> SUFFICES ASSUME NEW n \in DOMAIN r
                 PROVE  /\ OfFile(f, r[n])
                        /\ n + 1 \in DOMAIN r /\ Opens(r[n]) => Continues(f, After(r[n]), r[n + 1])
        BY DEF FileLine
    <2>1. CASE n > Len(s)
      <3>1. n - Len(s) \in DOMAIN w /\ (n - Len(s)) + Len(s) = n BY <1>2, <2>1
      <3>2. r[n] = w[n - Len(s)] BY <3>1, <1>5
      <3>3. ASSUME n + 1 \in DOMAIN r
            PROVE  (n - Len(s)) + 1 \in DOMAIN w /\ r[n + 1] = w[(n - Len(s)) + 1]
        <4>1. (n - Len(s)) + 1 \in DOMAIN w /\ ((n - Len(s)) + 1) + Len(s) = n + 1 BY <1>2, <2>1, <3>3
        <4> QED BY <4>1, <1>5
      <3> QED BY <3>1, <3>2, <3>3 DEF FileLine
    <2>2. CASE n < Len(s)
      <3>1. n \in DOMAIN s /\ n + 1 \in DOMAIN s BY <1>2, <2>2
      <3> QED BY <3>1, <1>4 DEF FileLine
    <2>3. CASE n = Len(s)
      <3>1. n \in DOMAIN s /\ r[n] = s[Len(s)] /\ s # << >> BY <1>2, <1>3, <1>4, <2>3
      <3>2. 1 \in DOMAIN w BY <1>2, <1>3
      <3>3. r[1 + Len(s)] = w[1] BY <3>2, <1>5
      <3>4. r[n + 1] = w[1] BY <3>3, <2>3, <1>2
      <3>5. ASSUME Opens(r[n]) PROVE Continues(f, After(r[n]), w[1])
        <4>1. CASE w[1].t = "data"
          <5>1. After(r[n]) = p BY <3>1, <3>5, <4>1 DEF EndsAt
          <5> QED BY <5>1, <4>1 DEF StartsAt
        <4>2. CASE w[1].t # "data" BY <4>2 DEF Continues
        <4> QED BY <4>1, <4>2
      <3>6. OfFile(f, r[n]) BY <3>1, <2>3 DEF FileLine
      <3> QED BY <3>4, <3>5, <3>6
    <2>4. n \in Int BY <1>2
    <2> QED BY <1>2, <2>1, <2>2, <2>3, <2>4
  <1>7. ASSUME NEW q, EndsAt(w, q) PROVE EndsAt(r, q)
    <2>1. Len(w) \in DOMAIN w /\ Len(w) + Len(s) = Len(r) BY <1>1, <1>2, <1>3
    <2>2. r[Len(r)] = w[Len(w)] BY <2>1, <1>5
    <2> QED BY <2>2, <1>7 DEF EndsAt
  <1>8. ASSUME NEW q, s # << >> => StartsAt(s, f, q), s = << >> => StartsAt(w, f, q) PROVE StartsAt(r, f, q)
    <2>1. CASE s # << >>
      <3>1. 1 \in DOMAIN s BY <2>1, <1>2, <1>3
      <3>2. r[1] = s[1] BY <3>1, <1>4
      <3> QED BY <3>2, <1>8, <2>1 DEF StartsAt
    <2>2. CASE s = << >>
      <3>1. 1 \in DOMAIN w /\ Len(s) = 0 BY <2>2, <1>2, <1>3
      <3>2. r[1] = w[1] BY <3>1, <1>5
      <3> QED BY <3>2, <1>8, <2>2 DEF StartsAt
    <2> QED BY <2>1, <2>2
  <1> QED BY <1>3, <1>6, <1>7, <1>8 DEF r

-----------------------------------------------------------------------------
(* Noise on the line, and what SendData puts on it.                        *)

(* Noise takes offers and data away, and puts none there.                   *)
LEMMA Spoiled ==
  ASSUME NEW s, IsLine(s), NEW k \in DOMAIN s, NEW e, Quiet(e) \/ Spoilt(e),
         Quiet(e) \/ s[k].t \in {"data", "info"}
  PROVE  LET r == [s EXCEPT ![k] = e]
         IN  /\ IsLine(r) /\ Len(r) = Len(s)
             /\ \A t \in {"ZFIN", "ZFILE", "info", "ZRQINIT"} : HasA(r, t) => HasA(s, t)
             /\ HasOffer(r) => HasOffer(s)
             /\ \A f : OfferLine(s, f) => OfferLine(r, f)
             /\ LastOffer(s) => LastOffer(r)
             /\ \A f : FileLine(s, f) => FileLine(r, f)
             /\ \A p : EndsAt(s, p) => EndsAt(r, p)
             /\ \A f, p : StartsAt(s, f, p) => StartsAt(r, f, p)
  <1> DEFINE r == [s EXCEPT ![k] = e]
  <1>1. /\ IsLine(r) /\ Len(r) = Len(s)
        /\ \A j \in 1..Len(s) : r[j] = IF j = k THEN e ELSE s[j]
        BY ExceptLine
  <1> HIDE DEF r
  <1>2. Len(s) \in Nat /\ DOMAIN s = 1..Len(s) /\ DOMAIN r = DOMAIN s BY <1>1, LineIs
  <1>3. \A j \in DOMAIN s : (j # k /\ r[j] = s[j]) \/ (j = k /\ r[j] = e) BY <1>1, <1>2
  <1>4. /\ e.t \notin {"ZFILE", "info", "ZFIN", "ZRQINIT", "ZDATA", "data"}
        /\ ~Offering(e) /\ ~Opens(e) /\ \A f : OfFile(f, e) /\ \A p : Continues(f, p, e)
        BY QuietIs DEF Quiet, Spoilt
  <1>5. Quiet(s[k]) => Quiet(e) BY DEF Quiet
  <1>6. \A t \in {"ZFIN", "ZFILE", "info", "ZRQINIT"} : HasA(r, t) => HasA(s, t) BY <1>2, <1>3, <1>4 DEF HasA
  <1>7. HasOffer(r) => HasOffer(s) BY <1>2, <1>3, <1>4 DEF HasOffer
  <1>8. ASSUME NEW f, OfferLine(s, f) PROVE OfferLine(r, f)
    <2> SUFFICES ASSUME NEW n \in DOMAIN s
                 PROVE  /\ r[n].t = "info" => /\ r[n] = Subpacket("info", <<f>>, TRUE)
                                              /\ \A m \in DOMAIN s : m > n => Quiet(r[m])
        BY <1>2 DEF OfferLine
    <2>1. r[n].t = "info" => r[n] = s[n] BY <1>3, <1>4
    <2>3. ASSUME r[n].t = "info", NEW m \in DOMAIN s, m > n PROVE Quiet(r[m])
      <3>1. Quiet(s[m]) BY <1>8, <2>1, <2>3 DEF OfferLine
      <3> QED BY <3>1, <1>3, <1>5
    <2>4. r[n].t = "info" => r[n] = Subpacket("info", <<f>>, TRUE) BY <2>1, <1>8 DEF OfferLine
    <2> QED BY <2>3, <2>4
  <1>9. LastOffer(s) => LastOffer(r) BY <1>1, <1>2, <1>3, <1>4 DEF LastOffer
  <1>11. ASSUME NEW f, FileLine(s, f) PROVE FileLine(r, f)
    <2> SUFFICES ASSUME NEW n \in DOMAIN s
                 PROVE  /\ OfFile(f, r[n])
                        /\ n + 1 \in DOMAIN s /\ Opens(r[n]) => Continues(f, After(r[n]), r[n + 1])
        BY <1>2 DEF FileLine
    <2>1. OfFile(f, r[n]) BY <1>3, <1>4, <1>11 DEF FileLine
    <2>2. ASSUME n + 1 \in DOMAIN s, Opens(r[n]) PROVE Continues(f, After(r[n]), r[n + 1])
      <3>1. r[n] = s[n] BY <1>3, <1>4, <2>2
      <3>2. Continues(f, After(r[n]), s[n + 1]) BY <3>1, <1>11, <2>2 DEF FileLine
      <3> QED BY <3>2, <1>3, <1>4, <2>2
    <2> QED BY <2>1, <2>2
  <1>12. r = << >> <=> s = << >> BY <1>1, NoneInIt
  <1>13. s # << >> => Len(s) \in DOMAIN s /\ 1 \in DOMAIN s BY <1>2, NoneInIt
  <1>14. \A p : EndsAt(s, p) => EndsAt(r, p)
    <2> SUFFICES ASSUME NEW p, EndsAt(s, p), r # << >>, Opens(r[Len(r)]) PROVE After(r[Len(r)]) = p
        BY DEF EndsAt
    <2>1. Len(r) = Len(s) /\ r[Len(s)] = s[Len(s)] BY <1>1, <1>3, <1>4, <1>12, <1>13
    <2> QED BY <2>1, <1>12 DEF EndsAt
  <1>15. \A f, p : StartsAt(s, f, p) => StartsAt(r, f, p)
    <2> SUFFICES ASSUME NEW f, NEW p, StartsAt(s, f, p), r # << >> PROVE Continues(f, p, r[1])
        BY DEF StartsAt
    <2>1. r[1] = s[1] \/ r[1] = e BY <1>3, <1>12, <1>13
    <2> QED BY <2>1, <1>4, <1>12 DEF StartsAt
  <1> QED BY <1>1, <1>6, <1>7, <1>8, <1>9, <1>11, <1>14, <1>15 DEF r

(* What SendData puts on the line. *)
LEMMA BlockSent ==
  ASSUME NEW f \in Files, NEW p \in Nat, p <= Sizes[f], NEW fresh \in BOOLEAN
  PROVE  LET size == Sizes[f]
             count == IF p = size THEN 0 ELSE 1
             last == p + count >= size
             w == (IF fresh THEN <<Header("ZDATA", p)>> ELSE << >>)
                    \o <<Subpacket("data", [k \in 1..count |-> <<f, p + 1>>], last)>>
                    \o (IF last THEN <<Header("ZEOF", size)>> ELSE << >>)
         IN  /\ IsLine(w) /\ w # << >> /\ FileLine(w, f)
             /\ StartsAt(w, f, p) /\ (fresh => w[1].t # "data") /\ (~last => EndsAt(w, p + count))
             /\ ~HasOffer(w) /\ ~HasA(w, "ZFIN") /\ ~HasA(w, "ZRQINIT") 
             /\ p + count \in Nat /\ p + count <= size
  <1> DEFINE size == Sizes[f]
             count == IF p = size THEN 0 ELSE 1
             last == p + count >= size
             h == Header("ZDATA", p)
             d == Subpacket("data", [k \in 1..count |-> <<f, p + 1>>], last)
             z == Header("ZEOF", size)
             a == IF fresh THEN <<h>> ELSE << >>
             c == IF last THEN <<z>> ELSE << >>
             w == a \o <<d>> \o c
  <1>1. size \in Nat BY ZmodemAssumption DEF Files
  <1>2. count \in {0, 1} /\ p + count \in Nat /\ p + count <= size BY <1>1
  <1>3. d = DataAt(f, p)
    <2>1. last <=> p + 1 >= Sizes[f] BY <1>1
    <2>2. last \in BOOLEAN /\ (p + 1 >= Sizes[f]) \in BOOLEAN OBVIOUS
    <2>3. [k \in 1..count |-> <<f, p + 1>>] = IF p = Sizes[f] THEN << >> ELSE <<<<f, p + 1>>>>
      <3>1. CASE p = Sizes[f]
        <4>1. 1..count = {} BY <3>1
        <4> QED BY <4>1, <3>1
      <3>2. CASE p # Sizes[f]
        <4>1. 1..count = 1..1 BY <3>2
        <4> QED BY <4>1, <3>2
      <3> QED BY <3>1, <3>2
    <2>4. last = (p + 1 >= Sizes[f]) BY <2>1, <2>2
    <2> DEFINE bs == [k \in 1..count |-> <<f, p + 1>>]
               bs2 == IF p = Sizes[f] THEN << >> ELSE <<<<f, p + 1>>>>
               last2 == p + 1 >= Sizes[f]
    <2>5. d = Subpacket("data", bs, last) /\ DataAt(f, p) = Subpacket("data", bs2, last2) BY DEF DataAt
    <2>6. bs = bs2 /\ last = last2 BY <2>3, <2>4
    <2> HIDE DEF last, count, bs, bs2, last2, d
    <2> QED BY <2>5, <2>6
  <1>4. h.t = "ZDATA" /\ h.position = p /\ z.t = "ZEOF" /\ z.position = size /\ d.t = "data" BY DEF Header, Subpacket
  <1>5. ~last => ~d.last /\ d.blocks[1][2] = p + count
    <2> SUFFICES ASSUME ~last PROVE ~d.last /\ d.blocks[1][2] = p + count OBVIOUS
    <2>1. p # Sizes[f] /\ count = 1 BY <1>1
    <2>2. d.last = last BY DEF Subpacket
    <2>3. d.blocks = <<<<f, p + 1>>>> BY <1>3, <2>1 DEF DataAt, Subpacket
    <2>4. (<<<<f, p + 1>>>>)[1][2] = p + 1 OBVIOUS
    <2> HIDE DEF last, count, d
    <2> QED BY <2>1, <2>2, <2>3, <2>4
  <1> HIDE DEF h, d, z
  <1>6. OfFile(f, h) /\ OfFile(f, d) /\ OfFile(f, z) /\ ~Opens(z) /\ After(h) = p /\ Continues(f, p, d)
        /\ Continues(f, p, h) /\ \A q : Continues(f, q, z)
    <2>1. p \in 0..Sizes[f] BY <1>1
    <2> QED BY <2>1, <1>3, <1>4 DEF OfFile, Opens, After, Continues
  <1>7. ~last => After(d) = p + count BY <1>4, <1>5 DEF After
  <1>8. IsLine(a) /\ Len(a) = (IF fresh THEN 1 ELSE 0) /\ (fresh => a[1] = h) BY OneLine, EmptyLine
  <1>9. IsLine(c) /\ Len(c) = (IF last THEN 1 ELSE 0) /\ (last => c[1] = z) BY OneLine, EmptyLine
  <1>10. IsLine(<<d>>) /\ Len(<<d>>) = 1 /\ <<d>>[1] = d BY OneLine
  <1> DEFINE b == a \o <<d>>
  <1>11. /\ IsLine(b) /\ Len(b) = Len(a) + 1
         /\ \A i \in 1..Len(a) + 1 : b[i] = IF i <= Len(a) THEN a[i] ELSE <<d>>[i - Len(a)]
         BY <1>8, <1>10, ConcatLine
  <1> HIDE DEF last, count, a, c, b
  <1>12. b[Len(b)] = d /\ (fresh => Len(b) = 2 /\ b[1] = h) /\ (~fresh => Len(b) = 1)
         BY <1>8, <1>10, <1>11
  <1>13. /\ IsLine(b \o c) /\ Len(b \o c) = Len(b) + Len(c)
         /\ \A i \in 1..Len(b) + Len(c) : (b \o c)[i] = IF i <= Len(b) THEN b[i] ELSE c[i - Len(b)]
         BY <1>9, <1>11, ConcatLine
  <1>14. w = b \o c BY DEF b
  <1> HIDE DEF w
  <1>15. \A i \in 1..Len(b) + Len(c) : w[i] = IF i <= Len(b) THEN b[i] ELSE c[i - Len(b)] BY <1>13, <1>14
  <1>16. IsLine(w) /\ DOMAIN w = 1..Len(w) /\ Len(w) = Len(b) + Len(c) /\ Len(w) > 0 /\ w # << >>
    <2>1. IsLine(w) /\ Len(w) = Len(b) + Len(c) BY <1>13, <1>14
    <2>2. Len(w) > 0 BY <2>1, <1>9, <1>12
    <2> QED BY <2>1, <2>2, LineIs, EmptyLine
  <1>17. (last => w[Len(w)] = z /\ w[Len(w) - 1] = d /\ Len(w) = Len(b) + 1)
         /\ (~last => w[Len(w)] = d /\ Len(w) = Len(b)) /\ (fresh => w[1] = h) /\ (~fresh => w[1] = d)
         BY <1>9, <1>12, <1>15, <1>16
  <1>18. \A i \in DOMAIN w : \/ w[i] = h /\ i = 1 /\ (2 \in DOMAIN w => w[2] = d)
                             \/ w[i] = d /\ (i + 1 \in DOMAIN w => last /\ w[i + 1] = z)
                             \/ w[i] = z /\ i = Len(w)
         BY <1>9, <1>12, <1>15, <1>16, <1>17
  <1>19. FileLine(w, f)
    <2> SUFFICES ASSUME NEW i \in DOMAIN w
                 PROVE  OfFile(f, w[i]) /\ (i + 1 \in DOMAIN w /\ Opens(w[i]) => Continues(f, After(w[i]), w[i + 1]))
        BY DEF FileLine
    <2>1. CASE w[i] = h /\ i = 1 /\ (2 \in DOMAIN w => w[2] = d) BY <2>1, <1>6
    <2>2. CASE w[i] = d /\ (i + 1 \in DOMAIN w => last /\ w[i + 1] = z) BY <2>2, <1>6
    <2>3. CASE w[i] = z /\ i = Len(w)  BY <2>3, <1>6
    <2> QED BY <1>18, <2>1, <2>2, <2>3
  <1>20. StartsAt(w, f, p) /\ (fresh => w[1].t # "data") BY <1>4, <1>6, <1>17 DEF StartsAt
  <1>21. ~last => EndsAt(w, p + count) BY <1>7, <1>17 DEF EndsAt
  <1>22. \A i \in DOMAIN w : w[i].t \in {"ZDATA", "data", "ZEOF"} BY <1>4, <1>18
  <1>23. ~HasOffer(w) /\ ~HasA(w, "ZFIN") /\ ~HasA(w, "ZRQINIT") BY <1>22 DEF HasOffer, HasA, Offering
  <1> QED BY <1>2, <1>16, <1>19, <1>20, <1>21, <1>23 DEF w, a, b, c, last, count, h, d, z

-----------------------------------------------------------------------------
(* The files that are taken, in order; and which have come, once n have.   *)

(* A set of numbers has a least one: the induction used below.              *)
LEMMA LeastNat ==
    ASSUME NEW S \in SUBSET Nat, S # {}
    PROVE  \E m \in S : \A x \in S : m <= x
<1> DEFINE T == {0..n : n \in S}
<1>1. T \subseteq FiniteSubsetsOf(Nat) /\ T # {}
    <2>1. \A n \in S : 0..n \in SUBSET Nat /\ IsFiniteSet(0..n) BY FS_Interval
    <2> QED BY <2>1 DEF FiniteSubsetsOf
<1>2. PICK U \in T : \A V \in T : ~(<<V, U>> \in StrictSubsetOrdering(Nat))
    <2> HIDE DEF T
    <2> QED BY <1>1, FS_StrictSubsetOrderingWellFounded, WFMin
<1>3. PICK m \in S : U = 0..m BY <1>2
<1>4. ASSUME NEW x \in S, x < m PROVE FALSE
    <2>1. 0..x \in T /\ 0..x \subseteq Nat /\ 0..m \subseteq Nat /\ 0..x \subseteq 0..m
          /\ m \in 0..m /\ m \notin 0..x
          BY <1>3, <1>4
    <2> QED BY <1>2, <1>3, <2>1 DEF StrictSubsetOrdering
<1> QED BY <1>4

Offers == Files \ TooBig
\* s holds the files of fs, in order.
Lists(s, fs) == /\ s \in Seq(fs)
                /\ \A f \in fs : \E n \in DOMAIN s : s[n] = f
                /\ \A m, n \in DOMAIN s : m < n => s[m] < s[n]

LEMMA FilesAre == Len(Sizes) \in Nat /\ Files = 1..Len(Sizes) /\ \A f \in Files : Sizes[f] \in Nat
  <1>1. Sizes \in Seq(Nat) BY ZmodemAssumption
  <1>2. Len(Sizes) \in Nat /\ DOMAIN Sizes = 1..Len(Sizes) BY <1>1, LenProperties
  <1>3. \A f \in 1..Len(Sizes) : Sizes[f] \in Nat BY <1>1, ElementOfSeq
  <1> QED BY <1>2, <1>3 DEF Files

(* The list that Taken names exists, so it has what defines it.             *)
LEMMA ListExists == \E s : Lists(s, Offers) /\ Len(s) <= Len(Sizes)
  <1> DEFINE To(n) == Offers \cap 1..n
             Listed(n) == \E s : Lists(s, To(n)) /\ Len(s) <= n
             Bad == {n \in 0..Len(Sizes) : ~Listed(n)}
  <1>1. Len(Sizes) \in Nat /\ Offers \subseteq 1..Len(Sizes) BY FilesAre DEF Offers
  <1>2. Listed(0)
    <2>1. To(0) = {} OBVIOUS
    <2>2. << >> \in Seq({}) /\ Len(<< >>) = 0 BY EmptySeq
    <2>3. DOMAIN << >> = {} BY <2>2, LenProperties
    <2>4. Lists(<< >>, {}) BY <2>2, <2>3 DEF Lists
    <2> QED BY <2>1, <2>2, <2>4
  <1>3. ASSUME NEW n \in Nat, Listed(n) PROVE Listed(n + 1)
    <2>1. PICK s : Lists(s, To(n)) /\ Len(s) <= n BY <1>3
    <2> DEFINE A == To(n)
               B == To(n + 1)
    <2>2. A \subseteq B /\ (\A f \in B : f \in A \/ f = n + 1) /\ (\A f \in A : f \in Int /\ f < n + 1)
          /\ (n + 1 \in Offers => n + 1 \in B)
          BY <1>1
    <2>3. CASE n + 1 \in Offers
      <3> HIDE DEF A, B
      <3> DEFINE r == Append(s, n + 1)
      <3>1. s \in Seq(B) /\ n + 1 \in B BY <2>1, <2>2, <2>3, SeqMonotonic DEF Lists, A
      <3>2. /\ r \in Seq(B) /\ Len(r) = Len(s) + 1 /\ \A i \in 1..Len(s) : r[i] = s[i]
            /\ r[Len(s) + 1] = n + 1
            BY <3>1, AppendProperties
      <3> HIDE DEF r
      <3>3. Len(s) \in Nat /\ DOMAIN s = 1..Len(s) /\ DOMAIN r = 1..Len(s) + 1 BY <3>1, <3>2, LenProperties
      <3>4. \A i \in DOMAIN s : s[i] \in A
        <4>1. s \in Seq(A) BY <2>1 DEF Lists, A
        <4> QED BY <4>1, <3>3, ElementOfSeq
      <3>5. \A f \in B : \E i \in DOMAIN r : r[i] = f
        <4> SUFFICES ASSUME NEW f \in B PROVE \E i \in DOMAIN r : r[i] = f OBVIOUS
        <4>1. CASE f \in A
          <5>1. PICK i \in DOMAIN s : s[i] = f BY <2>1, <4>1 DEF Lists, A
          <5> QED BY <5>1, <3>2, <3>3
        <4>2. CASE f = n + 1 BY <4>2, <3>2, <3>3
        <4> QED BY <2>2, <4>1, <4>2
      <3>6. \A i, j \in DOMAIN r : i < j => r[i] < r[j]
        <4> SUFFICES ASSUME NEW i \in DOMAIN r, NEW j \in DOMAIN r, i < j PROVE r[i] < r[j] OBVIOUS
        <4>1. i \in DOMAIN s /\ r[i] = s[i] BY <3>2, <3>3
        <4>2. CASE j \in DOMAIN s
          <5>1. r[j] = s[j] BY <3>2, <3>3, <4>2
          <5> QED BY <5>1, <4>1, <4>2, <2>1 DEF Lists
        <4>3. CASE j = Len(s) + 1 BY <4>1, <4>3, <3>2, <3>4, <2>2
        <4> QED BY <3>3, <4>2, <4>3
      <3>7. Lists(r, B) /\ Len(r) <= n + 1 BY <2>1, <3>2, <3>3, <3>5, <3>6 DEF Lists
      <3> QED BY <3>7 DEF B
    <2>4. CASE n + 1 \notin Offers
      <3>1. B = A BY <1>1, <2>4
      <3>2. Len(s) \in Nat BY <2>1, LenProperties DEF Lists
      <3>3. Lists(s, B) /\ Len(s) <= n + 1
        <4> HIDE DEF A, B
        <4>1. Lists(s, A) BY <2>1 DEF A
        <4> QED BY <4>1, <2>1, <3>1, <3>2
      <3> QED BY <3>3
    <2> QED BY <2>3, <2>4
  <1> HIDE DEF Listed
  <1>4. ASSUME Bad # {} PROVE FALSE
    <2>1. PICK m \in Bad : \A x \in Bad : m <= x
      <3>1. Bad \in SUBSET Nat BY <1>1
      <3> HIDE DEF Bad
      <3> QED BY <3>1, <1>4, LeastNat
    <2>2. m # 0 BY <1>2
    <2>3. m - 1 \in 0..Len(Sizes) /\ m - 1 \in Nat /\ (m - 1) + 1 = m BY <1>1, <2>2
    <2>4. Listed(m - 1) BY <2>1, <2>3
    <2>5. Listed((m - 1) + 1) BY <1>3, <2>3, <2>4
    <2> QED BY <2>3, <2>5
  <1>5. Listed(Len(Sizes)) BY <1>1, <1>4
  <1>6. To(Len(Sizes)) = Offers BY <1>1
  <1> QED BY <1>5, <1>6 DEF Listed

LEMMA TakenLists ==
  /\ Taken \in Seq(Offers) /\ Len(Taken) \in Nat /\ DOMAIN Taken = 1..Len(Taken)
  /\ \A n \in DOMAIN Taken : Taken[n] \in Offers
  /\ \A f \in Offers : \E n \in DOMAIN Taken : Taken[n] = f
  /\ \A m, n \in DOMAIN Taken : m < n => Taken[m] < Taken[n]
  <1> DEFINE P(s) == /\ \A f \in Files \ TooBig : \E n \in DOMAIN s : s[n] = f
                     /\ \A m, n \in DOMAIN s : m < n => s[m] < s[n]
             All == SeqOf(Files \ TooBig, Len(Sizes))
  <1>1. PICK s : Lists(s, Offers) /\ Len(s) <= Len(Sizes) BY ListExists
  <1>2. s \in All /\ P(s)
    <2>1. s \in Seq(Offers) /\ P(s) BY <1>1 DEF Lists, Offers
    <2>2. Len(s) \in 0..Len(Sizes) /\ s \in [1..Len(s) -> Offers] BY <1>1, <2>1, LenProperties, FilesAre
    <2> QED BY <2>1, <2>2 DEF SeqOf, Offers
  <1>3. Taken = CHOOSE r \in All : P(r) BY DEF Taken
  <1>4. Taken \in All /\ P(Taken)
    <2> HIDE DEF All, P
    <2> QED BY <1>2, <1>3
  <1>5. Taken \in Seq(Offers)
    <2>1. PICK m \in 0..Len(Sizes) : Taken \in [1..m -> Offers] BY <1>4 DEF SeqOf, Offers
    <2>2. m \in Nat BY <2>1, FilesAre
    <2> QED BY <2>1, <2>2, SeqDef
  <1>6. Len(Taken) \in Nat /\ DOMAIN Taken = 1..Len(Taken) BY <1>5, LenProperties
  <1>7. \A n \in DOMAIN Taken : Taken[n] \in Offers BY <1>5, <1>6, ElementOfSeq
  <1> QED BY <1>4, <1>5, <1>6, <1>7 DEF Offers

\* The files received are those up to g: n is how many.
Through(n, g) == \A k \in DOMAIN Taken : k <= n <=> Taken[k] <= g

LEMMA ThroughNone == Through(0, 0)
  <1>1. \A k \in DOMAIN Taken : k \in Int /\ k > 0 /\ Taken[k] \in Int /\ Taken[k] > 0
        BY TakenLists, FilesAre DEF Offers
  <1> QED BY <1>1 DEF Through

(* Once a file has come, or is refused, the next one can be had.            *)
LEMMA ThroughNext ==
  ASSUME NEW n \in Nat, n <= Len(Taken), NEW f \in Files, Through(n, f - 1)
  PROVE  /\ f \in Offers => n < Len(Taken) /\ Taken[n + 1] = f /\ Through(n + 1, f)
         /\ f \in TooBig => Through(n, f)
  <1>1. /\ Len(Taken) \in Nat /\ DOMAIN Taken = 1..Len(Taken) /\ f \in Int
        /\ \A k \in DOMAIN Taken : Taken[k] \in Offers /\ Taken[k] \in Int
        BY TakenLists, FilesAre DEF Offers
  <1>2. ASSUME f \in Offers PROVE n < Len(Taken) /\ Taken[n + 1] = f /\ Through(n + 1, f)
    <2>1. PICK k \in DOMAIN Taken : Taken[k] = f BY <1>2, TakenLists
    <2>2. ~(k <= n) BY <1>1, <2>1 DEF Through
    <2>3. n < Len(Taken) /\ n + 1 \in DOMAIN Taken BY <1>1, <2>1, <2>2
    <2>4. ~(Taken[n + 1] <= f - 1) BY <2>3, <1>1 DEF Through
    <2>5. ~(n + 1 < k)
      <3>1. n + 1 < k => Taken[n + 1] < f BY <2>1, <2>3, TakenLists
      <3> QED BY <3>1, <2>3, <2>4, <1>1
    <2>6. k = n + 1 BY <1>1, <2>1, <2>2, <2>5
    <2>7. ASSUME NEW j \in DOMAIN Taken PROVE j <= n + 1 <=> Taken[j] <= f
      <3>1. (j <= n <=> Taken[j] <= f - 1) /\ j \in Int /\ Taken[j] \in Int BY <1>1 DEF Through
      <3>2. j > n + 1 => Taken[j] > f BY <2>1, <2>6, TakenLists
      <3>3. j = n + 1 => Taken[j] = f BY <2>1, <2>6
      <3> QED BY <3>1, <3>2, <3>3, <1>1
    <2> QED BY <2>1, <2>3, <2>6, <2>7 DEF Through
  <1>3. ASSUME f \in TooBig PROVE Through(n, f)
    <2> SUFFICES ASSUME NEW k \in DOMAIN Taken PROVE k <= n <=> Taken[k] <= f BY DEF Through
    <2>1. Taken[k] # f BY <1>1, <1>3 DEF Offers
    <2>2. k <= n <=> Taken[k] <= f - 1 BY DEF Through
    <2> QED BY <1>1, <2>1, <2>2
  <1> QED BY <1>2, <1>3

LEMMA ThroughAll ==
  ASSUME NEW n \in Nat, n <= Len(Taken), NEW g \in Int, g >= Len(Sizes), Through(n, g)
  PROVE  n = Len(Taken)
  <1>1. Len(Taken) \in Nat /\ DOMAIN Taken = 1..Len(Taken) BY TakenLists
  <1>2. n < Len(Taken) => FALSE
    <2> SUFFICES ASSUME n < Len(Taken) PROVE FALSE OBVIOUS
    <2>1. n + 1 \in DOMAIN Taken BY <1>1
    <2>2. Taken[n + 1] \in 1..Len(Sizes) BY <2>1, TakenLists, FilesAre DEF Offers
    <2>3. Taken[n + 1] <= g BY <2>2, FilesAre
    <2> QED BY <2>1, <2>3 DEF Through
  <1> DEFINE l == Len(Taken)
  <1>3. l \in Nat /\ n <= l /\ ~(n < l) BY <1>1, <1>2
  <1> HIDE DEF l
  <1>4. n = l BY <1>3
  <1> QED BY <1>4 DEF l

-----------------------------------------------------------------------------
(* The invariant.                                                          *)

Sending == {"data", "check", "eof"}
Filling == {"file", "data"}
SenderPlaces == Ended \cup Sending \cup {"start", "offer", "offered", "fin", "finish"}
ReceiverPlaces == Ended \cup Subpackets \cup {"off", "ready", "file"}

(* What a receiver has of file f after n blocks.                            *)
BlocksTo(f, n) == [k \in 1..n |-> <<f, k>>]
(* All the files up to g have come; all of the batch has.                   *)
UpTo(g) == Through(Len(received), g)
AllSent == sender.file = Len(Sizes) + 1 /\ Len(received) = Len(Taken)

TransferTypes ==
    /\ sender \in [at : SenderPlaces, file : 0..Len(Sizes) + 1, position : Nat, fresh : BOOLEAN, asks : 0..MaxAsks]
    /\ receiver \in [at : ReceiverPlaces, file : Files \cup {0}, blocks : Seq(Nat \X Nat), right : BOOLEAN,
                     asks : 0..MaxAsks]
    /\ IsLine(received) /\ IsLine(forth) /\ IsLine(back)

(* The files that have come are the first of those to take, and whole.      *)
ReceivedOK ==
    /\ Len(received) <= Len(Taken)
    /\ \A n \in DOMAIN received : received[n] = Whole(Taken[n])

(* Where the sender is, what has come is what it thinks; only the receiver  *)
(* that gave up may be anywhere else.                                       *)
SenderOK ==
    /\ sender.at = "start" => sender.file = 0 /\ Len(received) = 0 /\ receiver.at \in {"off", "ready", "failed"}
    /\ sender.at = "offer" => sender.file \in Files /\ UpTo(sender.file - 1) /\ receiver.at \in {"ready", "failed"}
    /\ sender.at = "offered" => sender.file \in Files
    /\ sender.at \in Sending =>
          /\ sender.file \in Offers /\ sender.position <= Sizes[sender.file]
          /\ receiver.at \in Filling \cup {"failed"} \/ (receiver.at = "ready" /\ UpTo(sender.file))
    /\ sender.at \in {"fin", "finish", "ok"} => AllSent /\ receiver.at \in {"ready", "ok", "failed"}

Offered == sender.at \in {"offered", "failed"} /\ sender.file \in Files /\ UpTo(sender.file - 1)
NothingBack == sender.at = "offered" => ~HasA(back, "ZRPOS") /\ ~HasA(back, "ZSKIP")

(* An offer that is read is the sender's; a file that is filled is the one  *)
(* the sender is in, or still offers, and has its first blocks.             *)
ReceiverOK ==
    /\ receiver.at # "offered again"
    /\ receiver.at = "off" => sender.at \in {"start", "failed"}
    /\ receiver.at = "offer" => Offered /\ NothingBack
    /\ receiver.at \in Filling =>
          /\ sender.file \in Offers /\ receiver.file = sender.file /\ UpTo(sender.file - 1)
          /\ Here <= Sizes[sender.file] /\ receiver.blocks = BlocksTo(sender.file, Here)
          /\ sender.at \in {"offered", "failed"} \cup Sending
          /\ sender.at = "offered" => receiver.at = "file" /\ forth = << >>
    /\ receiver.at = "ok" => AllSent

Streaming == sender.at \in {"data", "check"} /\ ~sender.fresh
(* Within a file the line has that file only: what the sender sends next    *)
(* follows what is on it, and what is on it follows what the receiver has,  *)
(* unless the receiver knows that the checksum will be wrong.               *)
LineOK ==
    receiver.at \in Filling =>
        /\ FileLine(forth, sender.file)
        /\ Streaming => EndsAt(forth, sender.position)
        /\ receiver.at = "data" /\ receiver.right =>
              /\ StartsAt(forth, sender.file, Here)
              /\ forth = << >> /\ Streaming => sender.position = Here

(* An offer is on the line only while the sender waits for its answer, and  *)
(* the last header only once all has been sent.                             *)
ForthOK ==
    /\ OfferLine(forth, sender.file)
    /\ sender.at = "offered" => LastOffer(forth)
    /\ HasOffer(forth) => Offered /\ NothingBack /\ receiver.at \notin Filling
    /\ HasA(forth, "ZFIN") => AllSent

(* Answers to the sender that are late: a position is asked for only of the *)
(* file it is in, and answers to a file come after those to the last.       *)
BackOK ==
    sender.at \notin Ended =>
        /\ HasA(back, "ZRPOS") =>
              /\ sender.file \in Offers /\ sender.at \in {"offered"} \cup Sending
              /\ sender.at = "offered" => receiver.at \in Filling \cup {"failed"}
        /\ HasA(back, "ZRPOS") => Positions(back, sender.file)
        /\ sender.at = "offered" => ~Precedes(back, "ZRPOS", "ZRINIT")
        /\ sender.at \in Sending => ~Precedes(back, "ZRINIT", "ZRPOS")
        /\ HasA(back, "ZRINIT") /\ sender.at = "start" => receiver.at # "off"
        /\ HasA(back, "ZRINIT") /\ sender.at \in Sending => UpTo(sender.file) /\ receiver.at \in {"ready", "failed"}
        /\ HasA(back, "ZSKIP") =>
              /\ sender.at = "offered" /\ sender.file \in TooBig /\ UpTo(sender.file - 1)
              /\ receiver.at \in {"ready", "failed"} /\ ~HasOffer(forth)
        /\ ~Precedes(back, "ZSKIP", "ZSKIP")

TransferInv == TransferTypes /\ ReceivedOK /\ SenderOK /\ ReceiverOK /\ LineOK /\ ForthOK /\ BackOK

LEMMA InitKeeps == ZmodemInit => TransferInv
<1> SUFFICES ASSUME ZmodemInit PROVE TransferInv OBVIOUS
<1> DEFINE h == Header("ZRQINIT", 0)
<1>1. h.t = "ZRQINIT" BY DEF Header
<1>2. forth = <<h>> /\ back = << >> /\ received = << >> BY DEF ZmodemInit
<1> HIDE DEF h
<1>3. /\ sender.at = "start" /\ sender.file = 0 /\ receiver.at = "off" BY DEF ZmodemInit
<1>4. ~HasOffer(forth) /\ ~HasA(forth, "ZFIN") BY <1>1, <1>2, HasOne DEF Offering
<1>5. /\ ~HasA(back, "ZRPOS") /\ ~HasA(back, "ZRINIT") /\ ~HasA(back, "ZSKIP")
      /\ ~Precedes(back, "ZRPOS", "ZRINIT") /\ ~Precedes(back, "ZRINIT", "ZRPOS") /\ ~Precedes(back, "ZSKIP", "ZSKIP")
      BY <1>2, HasNone
<1>6. TransferTypes
  <2>1. << >> \in Seq(Nat \X Nat) BY EmptySeq
  <2>2. Len(Sizes) \in Nat /\ MaxAsks \in Nat BY FilesAre, ZmodemAssumption
  <2>3. IsLine(received) /\ IsLine(forth) /\ IsLine(back) BY <1>2, OneLine, EmptyLine
  <2> QED BY <2>1, <2>2, <2>3 DEF ZmodemInit, TransferTypes, SenderPlaces, ReceiverPlaces
<1>7. Len(received) = 0 /\ ReceivedOK
  <2>1. Len(received) = 0 /\ DOMAIN received = 1..0 BY <1>2, EmptyLine, LineIs
  <2> QED BY <2>1, TakenLists DEF ReceivedOK
<1>8. SenderOK BY <1>3, <1>7 DEF SenderOK, Sending
<1>9. ReceiverOK BY <1>3 DEF ReceiverOK, Filling
<1>10. LineOK BY <1>3 DEF LineOK, Filling
<1>11. ForthOK BY <1>3, <1>4, NoOfferLine DEF ForthOK
<1>12. BackOK BY <1>5 DEF BackOK
<1> QED BY <1>6, <1>7, <1>8, <1>9, <1>10, <1>11, <1>12 DEF TransferInv

LEMMA SenderOffersKeeps == ASSUME TransferInv, SenderOffers PROVE TransferInv'
<1> DEFINE w == <<Header("ZFILE", 0), Subpacket("info", <<sender.file>>, TRUE)>>
<1>1. /\ sender.at = "offer" /\ forth' = forth \o w /\ UNCHANGED <<back, receiver, received>>
      /\ sender' = [sender EXCEPT !.at = "offered"]
      BY DEF SenderOffers, Sends, ReceiverOnly
<1>2. TransferTypes /\ ReceivedOK /\ SenderOK /\ ReceiverOK /\ LineOK /\ ForthOK /\ BackOK BY DEF TransferInv
<1>3. sender'.at = "offered" /\ sender'.file = sender.file BY <1>1, <1>2 DEF TransferTypes
<1>4. /\ sender.file \in Files /\ UpTo(sender.file - 1) /\ receiver.at \in {"ready", "failed"}
      BY <1>1, <1>2 DEF SenderOK
<1>5. ~HasOffer(forth) /\ ~HasA(forth, "ZFIN") 
      BY <1>1, <1>2, <1>4, FilesAre DEF ForthOK, Offered, AllSent
<1>6. ~HasA(back, "ZRPOS") /\ ~HasA(back, "ZSKIP")
      BY <1>1, <1>2 DEF BackOK, Sending, Ended
<1>7. /\ IsLine(w) /\ OfferLine(forth', sender.file) /\ LastOffer(forth')
      /\ \A t : HasA(w, t) => t \in {"ZFILE", "info"}
      BY <1>1, <1>2, <1>5, OfferSent DEF TransferTypes
<1>8. IsLine(forth') /\ ~HasA(forth', "ZFIN")
  <2> HIDE DEF w
  <2> QED BY <1>1, <1>2, <1>5, <1>7, HasConcat, ConcatLine DEF TransferTypes
<1>9. ~Precedes(back, "ZRPOS", "ZRINIT") /\ ~Precedes(back, "ZSKIP", "ZSKIP") BY <1>6, PrecedesHas
<1>10. UpTo(sender.file - 1)' BY <1>1, <1>3, <1>4 DEF UpTo
<1> HIDE DEF w
<1>11. TransferTypes' BY <1>1, <1>2, <1>8 DEF TransferTypes, SenderPlaces
<1>12. ReceivedOK' BY <1>1, <1>2 DEF ReceivedOK
<1>13. SenderOK' BY <1>3, <1>4 DEF SenderOK, Sending
<1>14. ReceiverOK' BY <1>1, <1>4 DEF ReceiverOK, Filling
<1>15. LineOK' BY <1>1, <1>4 DEF LineOK, Filling
<1>16. ForthOK' BY <1>1, <1>3, <1>4, <1>6, <1>7, <1>8, <1>10 DEF ForthOK, Offered, NothingBack, Filling
<1>17. BackOK' BY <1>1, <1>3, <1>6, <1>9 DEF BackOK, Sending
<1> QED BY <1>11, <1>12, <1>13, <1>14, <1>15, <1>16, <1>17 DEF TransferInv

-----------------------------------------------------------------------------
(* What the sender does keeps it.                                          *)

LEMMA InvParts ==
  ASSUME TransferInv
  PROVE  /\ TransferTypes /\ ReceivedOK /\ SenderOK /\ ReceiverOK /\ LineOK /\ ForthOK /\ BackOK
         /\ IsLine(forth) /\ IsLine(back) /\ IsLine(received)
  BY DEF TransferInv, TransferTypes

LEMMA SenderSendsBlockKeeps == ASSUME TransferInv, SenderSendsBlock PROVE TransferInv'
<1> DEFINE f == sender.file
           p == sender.position
           size == Sizes[f]
           count == IF p = size THEN 0 ELSE 1
           last == p + count >= size
           w == (IF sender.fresh THEN <<Header("ZDATA", p)>> ELSE << >>)
                  \o <<Subpacket("data", [k \in 1..count |-> <<f, p + 1>>], last)>>
                  \o (IF last THEN <<Header("ZEOF", size)>> ELSE << >>)
<1>1. /\ sender.at = "data" /\ forth' = forth \o w /\ UNCHANGED <<back, receiver, received>>
      /\ sender' = [sender EXCEPT !.at = IF last THEN "eof" ELSE "check", !.fresh = FALSE, !.position = @ + count]
      BY DEF SenderSendsBlock, Sends, ReceiverOnly
<1>2. TransferTypes /\ ReceivedOK /\ SenderOK /\ ReceiverOK /\ LineOK /\ ForthOK /\ BackOK BY InvParts
<1>3. /\ f \in Offers /\ f \in Files /\ p \in Nat /\ p <= size /\ sender.fresh \in BOOLEAN
      /\ receiver.at \in Filling \cup {"failed"} \/ (receiver.at = "ready" /\ UpTo(f))
      BY <1>1, <1>2 DEF SenderOK, Sending, TransferTypes, Offers
<1>4. /\ IsLine(w) /\ w # << >> /\ FileLine(w, f)
      /\ StartsAt(w, f, p) /\ (sender.fresh => w[1].t # "data") /\ (~last => EndsAt(w, p + count))
      /\ ~HasOffer(w) /\ ~HasA(w, "ZFIN")
      /\ p + count \in Nat /\ p + count <= size
      BY <1>3, BlockSent
<1>5. /\ sender'.at \in {"eof", "check"} /\ sender'.file = f /\ sender'.position = p + count
      /\ sender'.fresh = FALSE /\ (sender'.at = "check" => ~last) /\ sender'.asks = sender.asks
      /\ sender' = [at |-> sender'.at, file |-> f, position |-> p + count, fresh |-> FALSE, asks |-> sender.asks]
      BY <1>1, <1>2 DEF TransferTypes
<1>6. forth' = forth \o w /\ UNCHANGED <<back, receiver, received>> /\ sender.at = "data" BY <1>1
<1> HIDE DEF w, last, count
<1>7. IsLine(forth) /\ IsLine(forth') BY <1>4, <1>6, InvParts, ConcatLine
<1>8. ~HasOffer(forth) /\ ~HasA(forth, "ZFIN") BY <1>2, <1>3, <1>6, FilesAre DEF ForthOK, Offered, AllSent
<1>9. ~HasOffer(forth') /\ ~HasA(forth', "ZFIN") BY <1>4, <1>6, <1>7, <1>8, HasConcat
<1>10. TransferTypes' BY <1>2, <1>4, <1>5, <1>6, <1>7 DEF TransferTypes, SenderPlaces, Sending
<1>11. ReceivedOK' BY <1>2, <1>6 DEF ReceivedOK
<1>12. SenderOK' BY <1>3, <1>4, <1>5, <1>6 DEF SenderOK, Sending, UpTo
<1>13. ReceiverOK'
  <2>1. receiver.at \notin {"off", "ok", "offer"} BY <1>3 DEF Filling
  <2> QED BY <2>1, <1>2, <1>5, <1>6 DEF ReceiverOK, Filling, UpTo, Here, Sending
<1>14. LineOK'
  <2> SUFFICES ASSUME receiver.at \in Filling
               PROVE  /\ FileLine(forth', f)
                      /\ Streaming' => EndsAt(forth', sender'.position)
                      /\ receiver.at = "data" /\ receiver.right => StartsAt(forth', f, Here) /\ forth' # << >>
      BY <1>5, <1>6 DEF LineOK, Here
  <2>1. /\ FileLine(forth, f) /\ (~sender.fresh => EndsAt(forth, p))
        /\ receiver.at = "data" /\ receiver.right =>
              StartsAt(forth, f, Here) /\ (forth = << >> /\ ~sender.fresh => p = Here)
        BY <1>2, <1>6 DEF LineOK, Streaming
  <2>2. w[1].t = "data" => EndsAt(forth, p) /\ StartsAt(w, f, p) BY <1>3, <1>4, <2>1
  <2>3. /\ FileLine(forth', f) /\ forth' # << >>
        /\ \A q : EndsAt(w, q) => EndsAt(forth', q)
        /\ \A q : (forth # << >> => StartsAt(forth, f, q)) /\ (forth = << >> => StartsAt(w, f, q)) => StartsAt(forth', f, q)
        BY <1>4, <1>6, <1>7, <2>1, <2>2, FileConcat
  <2>4. Streaming' => EndsAt(forth', sender'.position) BY <1>4, <1>5, <2>3 DEF Streaming
  <2>5. ASSUME receiver.at = "data", receiver.right PROVE StartsAt(forth', f, Here)
    <3>1. forth = << >> => StartsAt(w, f, Here)
      <4>1. CASE sender.fresh BY <4>1, <1>4 DEF StartsAt, Continues
      <4>2. CASE ~sender.fresh BY <4>2, <1>4, <2>1, <2>5
      <4> QED BY <4>1, <4>2
    <3> QED BY <3>1, <2>1, <2>3, <2>5
  <2> QED BY <2>3, <2>4, <2>5
<1>15. ForthOK' BY <1>5, <1>9, NoOfferLine DEF ForthOK
<1>16. BackOK' BY <1>2, <1>5, <1>6 DEF BackOK, Sending, Ended, UpTo
<1> QED BY <1>10, <1>11, <1>12, <1>13, <1>14, <1>15, <1>16 DEF TransferInv

LEMMA SenderSeesNothingKeeps == ASSUME TransferInv, SenderSeesNothing PROVE TransferInv'
<1>1. /\ sender.at = "check" /\ UNCHANGED <<forth, back, receiver, received>>
      /\ sender' = [sender EXCEPT !.at = "data"]
      BY DEF SenderSeesNothing, ReceiverOnly
<1>2. TransferTypes /\ ReceivedOK /\ SenderOK /\ ReceiverOK /\ LineOK /\ ForthOK /\ BackOK BY InvParts
<1>3. /\ sender'.at = "data" /\ sender'.file = sender.file /\ sender'.position = sender.position
      /\ sender'.fresh = sender.fresh
      BY <1>1, <1>2 DEF TransferTypes
<1>4. TransferTypes' BY <1>1, <1>2 DEF TransferTypes, SenderPlaces, Sending
<1>5. ReceivedOK' BY <1>1, <1>2 DEF ReceivedOK
<1>6. SenderOK' BY <1>1, <1>2, <1>3 DEF SenderOK, Sending, UpTo
<1>7. ReceiverOK' BY <1>1, <1>2, <1>3 DEF ReceiverOK, Filling, UpTo, Here, Sending, Offered, AllSent
<1>8. LineOK' BY <1>1, <1>2, <1>3 DEF LineOK, Streaming, Here
<1>9. ForthOK' BY <1>1, <1>2, <1>3 DEF ForthOK, Offered, AllSent
<1>10. BackOK' BY <1>1, <1>2, <1>3 DEF BackOK, Sending, Ended, UpTo
<1> QED BY <1>4, <1>5, <1>6, <1>7, <1>8, <1>9, <1>10 DEF TransferInv

LEMMA HeaderDropped ==
  ASSUME TransferInv, back # << >>, back' = Tail(back), UNCHANGED <<forth, receiver, received>>,
         sender' = sender \/ (sender.at = "check" /\ sender' = [sender EXCEPT !.at = "data"])
  PROVE  TransferInv'
<1>1. TransferTypes /\ ReceivedOK /\ SenderOK /\ ReceiverOK /\ LineOK /\ ForthOK /\ BackOK BY InvParts
<1>2. /\ sender'.file = sender.file /\ sender'.position = sender.position /\ sender'.fresh = sender.fresh
      /\ sender'.at = sender.at \/ (sender.at = "check" /\ sender'.at = "data")
      BY <1>1 DEF TransferTypes
<1>3. IsLine(back) /\ IsLine(back') BY InvParts, TailLine
<1>4. /\ \A t : HasA(back', t) => HasA(back, t)
      /\ \A t, u : Precedes(back', t, u) => Precedes(back, t, u)
      /\ \A f : Positions(back, f) => Positions(back', f)
      BY <1>3, HasTail
<1>5. TransferTypes' BY <1>1, <1>3 DEF TransferTypes, SenderPlaces, Sending
<1>6. ReceivedOK' BY <1>1 DEF ReceivedOK
<1>7. SenderOK' BY <1>1, <1>2 DEF SenderOK, Sending, UpTo, AllSent
<1>8. ReceiverOK' BY <1>1, <1>2, <1>4 DEF ReceiverOK, Filling, UpTo, Here, Sending, Offered, NothingBack, AllSent
<1>9. LineOK' BY <1>1, <1>2 DEF LineOK, Streaming, Here
<1>10. ForthOK' BY <1>1, <1>2, <1>4 DEF ForthOK, Offered, NothingBack, AllSent, UpTo
<1>11. BackOK' BY <1>1, <1>2, <1>4 DEF BackOK, Sending, Ended, UpTo
<1> QED BY <1>5, <1>6, <1>7, <1>8, <1>9, <1>10, <1>11 DEF TransferInv

(* ZRPOS: it goes back, and what is on the line is of the same file.        *)
LEMMA SenderGoesBack ==
  ASSUME TransferInv, back # << >>, back' = Tail(back), UNCHANGED <<forth, receiver, received>>, Head(back).t = "ZRPOS",
         sender.at \in {"check", "offered", "eof"}, NEW p \in 0..Sizes[sender.file], sender' = GoesBackTo(p)
  PROVE  TransferInv'
<1>1. TransferTypes /\ ReceivedOK /\ SenderOK /\ ReceiverOK /\ LineOK /\ ForthOK /\ BackOK BY InvParts
<1>2. IsLine(back) /\ IsLine(back') BY InvParts, TailLine
<1>3. /\ \A t : HasA(back', t) => HasA(back, t)
      /\ \A t, u : Precedes(back', t, u) => Precedes(back, t, u)
      /\ \A f : Positions(back, f) => Positions(back', f)
      /\ \A u : HasA(back', u) => Precedes(back, "ZRPOS", u)
      /\ HasA(back, "ZRPOS")
      BY <1>2, HasTail
<1>4. /\ sender.file \in Offers /\ Sizes[sender.file] \in Nat /\ p \in Nat /\ p <= Sizes[sender.file]
      /\ sender.at = "offered" => receiver.at \in Filling \cup {"failed"}
  <2>1. sender.file \in Offers /\ (sender.at = "offered" => receiver.at \in Filling \cup {"failed"})
        BY <1>1, <1>3 DEF BackOK, Ended
  <2>2. Sizes[sender.file] \in Nat BY <2>1, FilesAre DEF Offers
  <2> QED BY <2>1, <2>2
<1>5. /\ sender'.file = sender.file /\ sender'.position = p /\ sender'.fresh = TRUE /\ sender'.at = "data"
      BY <1>1 DEF TransferTypes, GoesBackTo
<1>6. TransferTypes' BY <1>1, <1>2, <1>4 DEF TransferTypes, SenderPlaces, Sending, GoesBackTo
<1>7. ReceivedOK' BY <1>1 DEF ReceivedOK
<1>8. SenderOK' BY <1>1, <1>4, <1>5 DEF SenderOK, Sending, UpTo
<1>9. ReceiverOK'
  <2>1. receiver.at \in Filling \cup {"failed", "ready"} BY <1>1, <1>4 DEF SenderOK, Sending
  <2> QED BY <2>1, <1>1, <1>5 DEF ReceiverOK, Filling, UpTo, Here, Sending
<1>10. LineOK' BY <1>1, <1>5 DEF LineOK, Streaming, Here
<1>11. ForthOK'
  <2>1. ~HasOffer(forth) BY <1>1, <1>3 DEF ForthOK, Offered, NothingBack
  <2>2. ~HasA(forth, "ZFIN") BY <1>1, <1>4, FilesAre DEF ForthOK, AllSent, Offers
  <2> QED BY <2>1, <2>2, <1>5, NoOfferLine DEF ForthOK
<1>12. BackOK'
  <2>1. HasA(back', "ZRINIT") => sender.at \in Sending BY <1>1, <1>3 DEF BackOK, Ended, Sending
  <2>2. ~HasA(back', "ZSKIP") BY <1>1, <1>3, <1>4 DEF BackOK, Ended, Offers
  <2>3. ~Precedes(back', "ZRINIT", "ZRPOS") BY <1>1, <1>3, <2>1, PrecedesHas DEF BackOK, Ended
  <2>4. ~Precedes(back', "ZSKIP", "ZSKIP") BY <2>2, PrecedesHas
  <2> QED BY <1>1, <1>3, <1>4, <1>5, <2>1, <2>2, <2>3, <2>4 DEF BackOK, Sending, Ended, UpTo
<1> QED BY <1>6, <1>7, <1>8, <1>9, <1>10, <1>11, <1>12 DEF TransferInv

(* ZRINIT or ZSKIP: the file before is there, or refused.                   *)
LEMMA SenderGoesOn ==
  ASSUME TransferInv, back # << >>, back' = Tail(back), UNCHANGED <<forth, receiver, received>>, sender' = NextFile(sender),
         (sender.at \in {"start", "eof"} /\ Head(back).t = "ZRINIT") \/ (sender.at = "offered" /\ Head(back).t = "ZSKIP")
  PROVE  TransferInv'
<1>1. TransferTypes /\ ReceivedOK /\ SenderOK /\ ReceiverOK /\ LineOK /\ ForthOK /\ BackOK BY InvParts
<1>2. IsLine(back) /\ IsLine(back') /\ IsLine(received) BY InvParts, TailLine
<1>3. /\ \A t : HasA(back', t) => HasA(back, t)
      /\ \A t, u : Precedes(back', t, u) => Precedes(back, t, u)
      /\ \A u : HasA(back', u) => Precedes(back, Head(back).t, u)
      /\ HasA(back, Head(back).t)
      BY <1>2, HasTail
<1>4. Len(received) \in Nat /\ Len(received) <= Len(Taken) BY <1>1, <1>2, LineIs DEF ReceivedOK
<1>5. sender.file \in 0..Len(Sizes) /\ UpTo(sender.file) /\ receiver.at \in {"ready", "failed"}
  <2>1. CASE sender.at = "start" /\ Head(back).t = "ZRINIT"
    <3>1. sender.file = 0 /\ Len(received) = 0 /\ receiver.at \in {"ready", "failed"}
          BY <1>1, <1>3, <2>1 DEF SenderOK, BackOK, Ended
    <3> QED BY <3>1, ThroughNone, FilesAre DEF UpTo
  <2>2. CASE sender.at = "eof" /\ Head(back).t = "ZRINIT"
    <3>1. sender.file \in Files /\ UpTo(sender.file) /\ receiver.at \in {"ready", "failed"}
          BY <1>1, <1>3, <2>2 DEF SenderOK, BackOK, Ended, Sending, Offers
    <3> QED BY <3>1, FilesAre
  <2>3. CASE sender.at = "offered" /\ Head(back).t = "ZSKIP"
    <3>1. sender.file \in Files /\ sender.file \in TooBig /\ UpTo(sender.file - 1) /\ receiver.at \in {"ready", "failed"}
          BY <1>1, <1>3, <2>3 DEF SenderOK, BackOK, Ended
    <3>2. UpTo(sender.file) BY <3>1, <1>4, ThroughNext DEF UpTo
    <3> QED BY <3>1, <3>2, FilesAre
  <2> QED BY <2>1, <2>2, <2>3
<1>6. ~HasOffer(forth) /\ ~HasA(forth, "ZFIN")
  <2>1. sender.at = "offered" => ~HasOffer(forth) BY <1>1, <1>3 DEF BackOK, Ended
  <2>2. HasOffer(forth) => sender.at = "offered" BY <1>1 DEF ForthOK, Offered
  <2> QED BY <2>1, <2>2, <1>1, <1>5, FilesAre DEF ForthOK, AllSent
<1>7. ~HasA(back', "ZRPOS") /\ ~HasA(back', "ZSKIP")
  <2>1. CASE sender.at = "start" BY <2>1, <1>1, <1>3 DEF BackOK, Ended, Sending
  <2>2. CASE sender.at = "eof" BY <2>2, <1>1, <1>3 DEF BackOK, Ended, Sending
  <2>3. CASE sender.at = "offered" BY <2>3, <1>1, <1>3 DEF BackOK, Ended, Sending, Offers
  <2> QED BY <2>1, <2>2, <2>3
<1>8. /\ sender'.file = sender.file + 1
      /\ sender'.at = IF sender.file = Len(Sizes) THEN "fin" ELSE "offer"
      BY <1>1 DEF TransferTypes, NextFile
<1>9. UpTo(sender.file)' <=> UpTo(sender.file + 1) BY <1>8 DEF UpTo
<1>10. /\ sender'.at = "fin" => AllSent'
       /\ sender'.at = "offer" => sender'.file \in Files /\ Through(Len(received), sender'.file - 1)
  <2>1. sender.file = Len(Sizes) => Len(received) = Len(Taken)
        BY <1>4, <1>5, ThroughAll DEF UpTo
  <2>2. sender.file # Len(Sizes) => sender.file + 1 \in Files BY <1>5, FilesAre
  <2>3. (sender.file + 1) - 1 = sender.file BY <1>5
  <2> QED BY <1>5, <1>8, <2>1, <2>2, <2>3 DEF AllSent, UpTo
<1>11. TransferTypes'
  <2>1. sender.file + 1 \in 0..Len(Sizes) + 1 BY <1>5, FilesAre
  <2> QED BY <2>1, <1>1, <1>2 DEF TransferTypes, SenderPlaces, NextFile
<1>12. ReceivedOK' BY <1>1 DEF ReceivedOK
<1>13. SenderOK' BY <1>5, <1>8, <1>10 DEF SenderOK, Sending, UpTo
<1>14. ReceiverOK' BY <1>5 DEF ReceiverOK, Filling
<1>15. LineOK' BY <1>5 DEF LineOK, Filling
<1>16. ForthOK' BY <1>6, <1>8, NoOfferLine DEF ForthOK
<1>17. BackOK'
  <2>1. ~Precedes(back', "ZSKIP", "ZSKIP") BY <1>7, PrecedesHas
  <2> QED BY <2>1, <1>7, <1>8 DEF BackOK, Sending
<1> QED BY <1>11, <1>12, <1>13, <1>14, <1>15, <1>16, <1>17 DEF TransferInv

LEMMA SenderSeesHeaderKeeps == ASSUME TransferInv, SenderSeesHeader PROVE TransferInv'
<1>1. /\ sender.at = "check" /\ back # << >> /\ back' = Tail(back) /\ UNCHANGED <<forth, receiver, received>>
      /\ sender' = IF Head(back).t = "ZRPOS" THEN GoesBackTo(Head(back).position) ELSE [sender EXCEPT !.at = "data"]
      BY DEF SenderSeesHeader, ReceiverOnly
<1>2. CASE Head(back).t = "ZRPOS"
  <2>1. Head(back).position \in 0..Sizes[sender.file]
    <3>1. HasA(back, "ZRPOS") /\ \A f : Positions(back, f) => Head(back).position \in 0..Sizes[f]
          BY <1>1, <1>2, InvParts, HasTail
    <3> QED BY <3>1, <1>1, InvParts DEF BackOK, Ended
  <2>2. sender' = GoesBackTo(Head(back).position) BY <1>1, <1>2
  <2> QED BY <1>1, <1>2, <2>1, <2>2, SenderGoesBack
<1>3. CASE Head(back).t # "ZRPOS"
  <2>1. sender' = [sender EXCEPT !.at = "data"] BY <1>1, <1>3
  <2> QED BY <1>1, <2>1, HeaderDropped
<1> QED BY <1>2, <1>3

LEMMA SenderAwaitsKeeps == ASSUME TransferInv, SenderAwaits PROVE TransferInv'
<1> DEFINE answer == Head(back)
<1>1. /\ sender.at \in {"start", "offered", "eof", "finish"} /\ back # << >> /\ back' = Tail(back)
      /\ UNCHANGED <<forth, receiver, received>>
      BY DEF SenderAwaits, ReceiverOnly
<1>2. \/ sender.at \in {"start", "eof"} /\ answer.t = "ZRINIT" /\ sender' = NextFile(sender)
      \/ sender.at = "offered" /\ answer.t = "ZSKIP" /\ sender' = NextFile(sender)
      \/ /\ sender.at \in {"offered", "eof"} /\ answer.t = "ZRPOS"
         /\ sender' = GoesBackTo(InFile(answer.position))
      \/ sender.at = "finish" /\ sender' = [sender EXCEPT !.at = "ok"]
      \/ sender' = sender
      BY DEF SenderAwaits
<1>3. CASE sender.at \in {"start", "eof"} /\ answer.t = "ZRINIT" /\ sender' = NextFile(sender)
      BY <1>1, <1>3, SenderGoesOn
<1>4. CASE sender.at = "offered" /\ answer.t = "ZSKIP" /\ sender' = NextFile(sender)
      BY <1>1, <1>4, SenderGoesOn
<1>5. CASE /\ sender.at \in {"offered", "eof"} /\ answer.t = "ZRPOS"
           /\ sender' = GoesBackTo(InFile(answer.position))
  <2>1. answer.position \in 0..Sizes[sender.file] /\ sender.file \in Offers
    <3>1. HasA(back, "ZRPOS") /\ \A f : Positions(back, f) => answer.position \in 0..Sizes[f]
          BY <1>1, <1>5, InvParts, HasTail
    <3> QED BY <3>1, <1>1, <1>5, InvParts DEF BackOK, Ended
  <2>2. Sizes[sender.file] \in Nat BY <2>1, FilesAre DEF Offers
  <2>3. InFile(answer.position) \in 0..Sizes[sender.file] BY <2>1, <2>2 DEF InFile
  <2> QED BY <1>1, <1>5, <2>3, SenderGoesBack
<1>6. CASE sender.at = "finish" /\ sender' = [sender EXCEPT !.at = "ok"]
  <2>1. TransferTypes /\ ReceivedOK /\ SenderOK /\ ReceiverOK /\ LineOK /\ ForthOK /\ BackOK BY InvParts
  <2>2. sender'.at = "ok" /\ sender'.file = sender.file BY <1>6, <2>1 DEF TransferTypes
  <2>3. AllSent /\ receiver.at \in {"ready", "ok", "failed"} BY <1>6, <2>1 DEF SenderOK
  <2>4. ~HasOffer(forth) BY <1>6, <2>1 DEF ForthOK, Offered
  <2>5. AllSent' BY <1>1, <2>2, <2>3 DEF AllSent
  <2>6. IsLine(back') BY <1>1, InvParts, TailLine
  <2>7. TransferTypes' BY <1>1, <1>6, <2>1, <2>6 DEF TransferTypes, SenderPlaces, Ended
  <2>8. ReceivedOK' BY <1>1, <2>1 DEF ReceivedOK
  <2>9. SenderOK' BY <1>1, <2>2, <2>3, <2>5 DEF SenderOK, Sending
  <2>10. ReceiverOK' BY <1>1, <2>3, <2>5 DEF ReceiverOK, Filling
  <2>11. LineOK' BY <1>1, <2>3 DEF LineOK, Filling
  <2>12. ForthOK' BY <1>1, <2>2, <2>4, <2>5, NoOfferLine DEF ForthOK
  <2>13. BackOK' BY <2>2 DEF BackOK, Ended
  <2> QED BY <2>7, <2>8, <2>9, <2>10, <2>11, <2>12, <2>13 DEF TransferInv
<1>7. CASE sender' = sender BY <1>1, <1>7, HeaderDropped
<1> QED BY <1>2, <1>3, <1>4, <1>5, <1>6, <1>7

LEMMA SenderSendsHeader ==
  ASSUME TransferInv, NEW t, UNCHANGED <<back, receiver, received>>, forth' = forth \o <<Header(t, 0)>>,
         \/ sender.at = "fin" /\ t = "ZFIN" /\ sender' = [sender EXCEPT !.at = "finish"]
         \/ sender.at = "start" /\ t = "ZRQINIT" /\ sender.asks < MaxAsks /\ sender' = [sender EXCEPT !.asks = @ + 1]
  PROVE  TransferInv'
<1>1. TransferTypes /\ ReceivedOK /\ SenderOK /\ ReceiverOK /\ LineOK /\ ForthOK /\ BackOK BY InvParts
<1> DEFINE h == Header(t, 0)
<1>2. h.t = t BY DEF Header
<1> DEFINE u == <<h>>
<1>4. forth' = forth \o u OBVIOUS
<1> HIDE DEF h
<1>3. IsLine(u) /\ ~HasOffer(u) /\ (HasA(u, "ZFIN") => t = "ZFIN")
  <2>1. t \notin {"ZFILE", "info"} OBVIOUS
  <2> QED BY <2>1, <1>2, OneLine, HasOne DEF Offering
<1> HIDE DEF u
<1>6. IsLine(forth) /\ ~HasOffer(forth) BY <1>1, InvParts DEF ForthOK, Offered
<1>5. IsLine(forth \o u) /\ ~HasOffer(forth \o u) /\ (HasA(forth \o u, "ZFIN") => HasA(forth, "ZFIN") \/ t = "ZFIN")
      BY ONLY <1>3, <1>6, ConcatLine, HasConcat
<1>7. IsLine(forth') /\ ~HasOffer(forth') /\ (HasA(forth', "ZFIN") => HasA(forth, "ZFIN") \/ t = "ZFIN")
      BY ONLY <1>4, <1>5
<1>8. sender'.file = sender.file /\ (sender.at = "fin" => sender'.at = "finish") /\ (sender.at = "start" => sender'.at = "start")
      /\ sender.at \in {"fin", "start"}
      BY <1>1 DEF TransferTypes
<1>9. AllSent' <=> AllSent BY <1>8 DEF AllSent
<1>10. t = "ZFIN" => AllSent BY <1>1 DEF SenderOK
<1>11. receiver.at \notin Filling \cup {"offer"} /\ (receiver.at = "off" => sender.at = "start")
       BY <1>1, <1>8 DEF SenderOK, Filling
<1>12. TransferTypes'
  <2>1. sender.asks < MaxAsks => sender.asks + 1 \in 0..MaxAsks BY <1>1, ZmodemAssumption DEF TransferTypes
  <2> QED BY <2>1, <1>1, <1>7 DEF TransferTypes, SenderPlaces
<1>13. ReceivedOK' BY <1>1 DEF ReceivedOK
<1>14. SenderOK' BY <1>1, <1>8, <1>9 DEF SenderOK, Sending
<1>15. ReceiverOK' BY <1>1, <1>8, <1>9, <1>11 DEF ReceiverOK
<1>16. LineOK' BY <1>11 DEF LineOK
<1>17. ForthOK' BY <1>1, <1>7, <1>9, <1>10, NoOfferLine DEF ForthOK
<1>18. BackOK' BY <1>1, <1>8 DEF BackOK, Sending, Ended
<1> QED BY <1>12, <1>13, <1>14, <1>15, <1>16, <1>17, <1>18 DEF TransferInv

LEMMA SenderFinishesKeeps == ASSUME TransferInv, SenderFinishes PROVE TransferInv'
  BY SenderSendsHeader DEF SenderFinishes, Sends, ReceiverOnly

LEMMA SenderAsksKeeps == ASSUME TransferInv, SenderAsks PROVE TransferInv'
  BY SenderSendsHeader DEF SenderAsks, MayAskAgain, Sends, ReceiverOnly

-----------------------------------------------------------------------------
(* What the receiver does keeps it: what its answers add.                  *)

Receivers == [at : ReceiverPlaces, file : Files \cup {0}, blocks : Seq(Nat \X Nat), right : BOOLEAN,
              asks : 0..MaxAsks]

LEMMA Replied ==
  ASSUME NEW s, IsLine(s), NEW h
  PROVE  LET r == s \o <<h>>
         IN  /\ IsLine(r)
             /\ \A t : HasA(r, t) <=> HasA(s, t) \/ h.t = t
             /\ \A t, u : Precedes(r, t, u) => Precedes(s, t, u) \/ (HasA(s, t) /\ h.t = u)
             /\ \A f : Positions(s, f) /\ (h.t = "ZRPOS" => h.position \in 0..Sizes[f]) => Positions(r, f)
<1> DEFINE w == <<h>>
<1>1. /\ IsLine(w) /\ (\A t : HasA(w, t) <=> h.t = t) /\ (\A t, u : ~Precedes(w, t, u))
      /\ \A f : Positions(w, f) <=> (h.t = "ZRPOS" => h.position \in 0..Sizes[f])
      BY OneLine, HasOne
<1> HIDE DEF w
<1> DEFINE r == s \o w
<1>2. /\ IsLine(r)
      /\ \A t : HasA(r, t) <=> HasA(s, t) \/ HasA(w, t)
      /\ \A t, u : Precedes(r, t, u) => Precedes(s, t, u) \/ Precedes(w, t, u) \/ (HasA(s, t) /\ HasA(w, u))
      /\ \A f : Positions(r, f) <=> Positions(s, f) /\ Positions(w, f)
      BY <1>1, ConcatLine, HasConcat
<1> HIDE DEF r
<1>3. /\ IsLine(r)
      /\ \A t : HasA(r, t) <=> HasA(s, t) \/ h.t = t
      /\ \A t, u : Precedes(r, t, u) => Precedes(s, t, u) \/ (HasA(s, t) /\ h.t = u)
      /\ \A f : Positions(s, f) /\ (h.t = "ZRPOS" => h.position \in 0..Sizes[f]) => Positions(r, f)
      BY <1>1, <1>2
<1> QED BY <1>3 DEF r, w

LEMMA ForthDropped ==
  ASSUME TransferInv, forth # << >>
  PROVE  LET r == Tail(forth)
         IN  /\ IsLine(r)
             /\ HasOffer(r) => HasOffer(forth)
             /\ HasA(r, "ZFIN") => HasA(forth, "ZFIN")
             /\ OfferLine(r, sender.file)
             /\ LastOffer(forth) => LastOffer(r)
             /\ Offering(Head(forth)) => HasOffer(forth)
             /\ Head(forth).t = "ZFIN" => HasA(forth, "ZFIN")
<1>1. IsLine(forth) /\ OfferLine(forth, sender.file) BY InvParts DEF ForthOK
<1> QED BY <1>1, TailLine, HasTail, OfferTail, LastTail

Says(t) == \E h : h.t = t /\ back' = back \o <<h>>

(* The receiver is between files, or gives up: nothing more is due to it.   *)
LEMMA ReceiverRests ==
  ASSUME TransferInv, UNCHANGED <<sender, received>>,
         forth' = forth \/ (forth # << >> /\ forth' = Tail(forth)),
         receiver' \in Receivers, receiver'.at \in {"ready", "failed"},
         receiver'.at = "ready" => receiver.at \in {"off", "ready", "offer"},
         \/ UNCHANGED back
         \/ Says("ZNAK") \/ Says("five ZDLEs")
         \/ Says("ZRINIT") /\ receiver'.at = "ready"
  PROVE  TransferInv'
<1>1. TransferTypes /\ ReceivedOK /\ SenderOK /\ ReceiverOK /\ LineOK /\ ForthOK /\ BackOK BY InvParts
<1>2. /\ IsLine(forth') /\ (HasOffer(forth') => HasOffer(forth))
      /\ HasA(forth', "ZFIN") => HasA(forth, "ZFIN")
      /\ OfferLine(forth', sender.file)
      /\ LastOffer(forth) => LastOffer(forth')
  <2>1. IsLine(forth) /\ OfferLine(forth, sender.file) BY InvParts DEF ForthOK
  <2>2. CASE forth' = forth BY <2>1, <2>2
  <2>3. CASE forth # << >> /\ forth' = Tail(forth) BY <2>3, ForthDropped
  <2> QED BY <2>2, <2>3
<1> DEFINE ts == {t \in {"ZNAK", "five ZDLEs", "ZRINIT"} : t = "ZRINIT" => receiver'.at = "ready"}
<1>3. /\ IsLine(back') /\ \A t : HasA(back', t) => HasA(back, t) \/ t \in ts
      /\ \A t, u : Precedes(back', t, u) => Precedes(back, t, u) \/ (HasA(back, t) /\ u \in ts)
      /\ \A f : Positions(back, f) => Positions(back', f)
  <2>1. IsLine(back) BY InvParts
  <2>2. CASE UNCHANGED back BY <2>1, <2>2
  <2>3. CASE \E t \in ts : Says(t)
    <3>1. PICK h : h.t \in ts /\ back' = back \o <<h>> BY <2>3 DEF Says
    <3>2. h.t \in {"ZNAK", "five ZDLEs", "ZRINIT"} BY <3>1
    <3> HIDE DEF ts
    <3> QED BY ONLY <2>1, <3>1, <3>2, Replied
  <2> QED BY <2>2, <2>3
<1>13. /\ HasA(back', "ZRPOS") => HasA(back, "ZRPOS")
       /\ HasA(back', "ZSKIP") => HasA(back, "ZSKIP")
       /\ HasA(back', "ZRINIT") => HasA(back, "ZRINIT") \/ receiver'.at = "ready"
       /\ Precedes(back', "ZRPOS", "ZRINIT") =>
             Precedes(back, "ZRPOS", "ZRINIT") \/ (HasA(back, "ZRPOS") /\ receiver'.at = "ready")
       /\ Precedes(back', "ZRINIT", "ZRPOS") => Precedes(back, "ZRINIT", "ZRPOS")
       /\ Precedes(back', "ZSKIP", "ZSKIP") => Precedes(back, "ZSKIP", "ZSKIP")
  <2>1. "ZRPOS" \notin ts /\ "ZSKIP" \notin ts /\ ("ZRINIT" \in ts => receiver'.at = "ready") OBVIOUS
  <2> HIDE DEF ts
  <2> QED BY <1>3, <2>1
<1> HIDE DEF ts
<1>4. receiver'.at = "ready" => (sender.at \in Sending => receiver.at = "ready" /\ UpTo(sender.file))
      BY <1>1 DEF SenderOK, ReceiverOK, Offered, Sending, Filling
<1>5. receiver'.at = "ready" /\ sender.at = "offered" => ~HasA(back, "ZRPOS")
      BY <1>1 DEF BackOK, Filling, Ended
<1>6. TransferTypes' BY <1>1, <1>2, <1>3 DEF TransferTypes, Receivers
<1>7. ReceivedOK' BY <1>1 DEF ReceivedOK
<1>8. SenderOK' BY <1>1, <1>4 DEF SenderOK, UpTo, AllSent, Filling
<1>9. ReceiverOK' BY DEF ReceiverOK, Filling
<1>10. LineOK' BY DEF LineOK, Filling
<1>11. ForthOK' BY <1>1, <1>2, <1>13 DEF ForthOK, Offered, NothingBack, UpTo, AllSent, Filling
<1>12. BackOK' BY <1>1, <1>2, <1>3, <1>4, <1>5, <1>13 DEF BackOK, UpTo, Filling, Sending, Ended
<1> QED BY <1>6, <1>7, <1>8, <1>9, <1>10, <1>11, <1>12 DEF TransferInv

(* It asks for the file from where it is.                                   *)
LEMMA ReceiverAsksForData ==
  ASSUME TransferInv, UNCHANGED <<sender, received>>, forth # << >>, forth' = Tail(forth),
         receiver.at \in Filling,
         receiver' = receiver \/ receiver' = [receiver EXCEPT !.at = "file", !.right = TRUE], receiver'.at = "file",
         back' = back \o AskFromHere
  PROVE  TransferInv'
<1>1. TransferTypes /\ ReceivedOK /\ SenderOK /\ ReceiverOK /\ LineOK /\ ForthOK /\ BackOK BY InvParts
<1> DEFINE h == Header("ZRPOS", Here)
<1>2. h.t = "ZRPOS" /\ h.position = Here /\ back' = back \o <<h>> BY DEF Header, AskFromHere
<1> HIDE DEF h
<1>3. /\ receiver'.file = receiver.file /\ receiver'.blocks = receiver.blocks
      BY <1>1 DEF TransferTypes
<1>4. /\ sender.file \in Offers /\ UpTo(sender.file - 1)
      /\ Here \in 0..Sizes[sender.file]
      /\ sender.at \in {"failed"} \cup Sending
  <2>1. /\ sender.file \in Offers /\ Here <= Sizes[sender.file] /\ UpTo(sender.file - 1)
        /\ sender.at \in {"failed"} \cup Sending
        BY <1>1 DEF ReceiverOK
  <2>2. Here \in Nat /\ Sizes[sender.file] \in Nat
    <3>1. receiver.blocks \in Seq(Nat \X Nat) BY <1>1 DEF TransferTypes
    <3> QED BY <3>1, <2>1, LenProperties, FilesAre DEF Here, Offers
  <2> QED BY <2>1, <2>2
<1>5. IsLine(forth') /\ ~HasOffer(forth') /\ ~HasA(forth', "ZFIN")
  <2>1. ~HasOffer(forth) /\ ~HasA(forth, "ZFIN") BY <1>1, <1>4, FilesAre DEF ForthOK, AllSent, Offers
  <2> QED BY <2>1, ForthDropped
<1>6. /\ IsLine(back') /\ \A t : HasA(back', t) => HasA(back, t) \/ h.t = t
      /\ \A t, u : Precedes(back', t, u) => Precedes(back, t, u) \/ (HasA(back, t) /\ h.t = u)
      /\ \A f : Positions(back, f) /\ (h.t = "ZRPOS" => h.position \in 0..Sizes[f]) => Positions(back', f)
  <2>1. IsLine(back) BY InvParts
  <2>2. back' = back \o <<h>> BY <1>2
  <2> QED BY ONLY <2>1, <2>2, Replied
<1>7. ~HasA(back, "ZRPOS") => Positions(back, sender.file) BY DEF HasA, Positions
<1>8. sender.at \in Sending => ~HasA(back, "ZRINIT") /\ ~HasA(back, "ZSKIP")
      BY <1>1, <1>4 DEF BackOK, Filling, Sending, Ended
<1>9. TransferTypes' BY <1>1, <1>5, <1>6 DEF TransferTypes, ReceiverPlaces
<1>10. ReceivedOK' BY <1>1 DEF ReceivedOK
<1>11. SenderOK' BY <1>1, <1>4 DEF SenderOK, UpTo, AllSent, Filling, Sending
<1>12. ReceiverOK' BY <1>1, <1>3, <1>4 DEF ReceiverOK, Filling, UpTo, Here, Sending
<1>13. LineOK'
  <2>1. FileLine(forth', sender.file) /\ \A p : EndsAt(forth, p) => EndsAt(forth', p)
        BY <1>1, InvParts, FileTail DEF LineOK
  <2> QED BY <2>1, <1>1, <1>3 DEF LineOK, Streaming
<1>14. ForthOK' BY <1>4, <1>5, NoOfferLine DEF ForthOK, Sending
<1>15. BackOK' BY <1>1, <1>2, <1>4, <1>6, <1>7, <1>8 DEF BackOK, UpTo, Filling, Sending, Ended
<1> QED BY <1>9, <1>10, <1>11, <1>12, <1>13, <1>14, <1>15 DEF TransferInv

(* It skips something, or takes it for part of what it reads.               *)
LEMMA ReceiverTakesOne ==
  ASSUME TransferInv, UNCHANGED <<sender, received, back>>, forth # << >>, forth' = Tail(forth),
         \/ receiver.at = "file" /\ receiver' = receiver
         \/ receiver.at \in Subpackets /\ receiver' = [receiver EXCEPT !.right = FALSE]
  PROVE  TransferInv'
<1>1. TransferTypes /\ ReceivedOK /\ SenderOK /\ ReceiverOK /\ LineOK /\ ForthOK /\ BackOK BY InvParts
<1>2. /\ receiver'.file = receiver.file /\ receiver'.blocks = receiver.blocks /\ receiver'.at = receiver.at
      /\ receiver'.at = "data" => ~receiver'.right
      BY <1>1 DEF TransferTypes, Subpackets
<1>3. /\ IsLine(forth') /\ (HasOffer(forth') => HasOffer(forth))
      /\ HasA(forth', "ZFIN") => HasA(forth, "ZFIN")
      /\ OfferLine(forth', sender.file)
      /\ LastOffer(forth) => LastOffer(forth')
      BY ForthDropped
<1>4. TransferTypes' BY <1>1, <1>3 DEF TransferTypes
<1>5. ReceivedOK' BY <1>1 DEF ReceivedOK
<1>6. SenderOK' BY <1>1, <1>2 DEF SenderOK, UpTo, AllSent, Filling, Sending
<1>7. ReceiverOK' BY <1>1, <1>2 DEF ReceiverOK, Filling, UpTo, Here, Sending, Offered, NothingBack, AllSent
<1>8. LineOK'
  <2>1. receiver.at \in Filling =>
           FileLine(forth', sender.file) /\ \A p : EndsAt(forth, p) => EndsAt(forth', p)
        BY <1>1, InvParts, FileTail DEF LineOK
  <2> QED BY <2>1, <1>1, <1>2 DEF LineOK, Streaming, Filling
<1>9. ForthOK' BY <1>1, <1>2, <1>3 DEF ForthOK, Offered, NothingBack, UpTo, AllSent
<1>10. BackOK' BY <1>1, <1>2, <1>3 DEF BackOK, UpTo
<1> QED BY <1>4, <1>5, <1>6, <1>7, <1>8, <1>9, <1>10 DEF TransferInv

-----------------------------------------------------------------------------
(* The receiver between files.                                             *)

LEMMA BetweenIs == BetweenFiles \in Receivers /\ BetweenFiles.at = "ready"
<1>1. << >> \in Seq(Nat \X Nat) /\ MaxAsks \in Nat BY EmptySeq, ZmodemAssumption
<1> QED BY <1>1 DEF BetweenFiles, Receivers, ReceiverPlaces

LEMMA ReceiverIs == ASSUME TransferInv PROVE receiver \in Receivers
  BY DEF TransferInv, TransferTypes, Receivers

LEMMA ReceiverStartsKeeps == ASSUME TransferInv, ReceiverStarts PROVE TransferInv'
<1>1. /\ receiver.at = "off" /\ receiver' = BetweenFiles /\ back' = back \o <<Ready>>
      /\ UNCHANGED <<sender, received, forth>>
      BY DEF ReceiverStarts, Replies, SenderOnly
<1>2. Ready.t = "ZRINIT" BY DEF Ready, Header
<1>3. Says("ZRINIT") BY <1>1, <1>2 DEF Says
<1> QED BY <1>1, <1>3, BetweenIs, ReceiverRests

LEMMA ReceiverSkipsKeeps == ASSUME TransferInv, ReceiverSkips PROVE TransferInv'
<1>1. /\ receiver.at \in {"ready", "file"} /\ forth # << >> /\ forth' = Tail(forth)
      /\ UNCHANGED <<sender, receiver, received, back>>
      BY DEF ReceiverSkips, SenderOnly
<1>2. CASE receiver.at = "ready" BY <1>1, <1>2, ReceiverIs, ReceiverRests
<1>3. CASE receiver.at = "file" BY <1>1, <1>3, ReceiverTakesOne
<1> QED BY <1>1, <1>2, <1>3

LEMMA ReceiverSeesBadHeaderKeeps == ASSUME TransferInv, ReceiverSeesBadHeader PROVE TransferInv'
<1>1. /\ receiver.at \in {"ready", "file"} /\ forth # << >> /\ forth' = Tail(forth)
      /\ back' = back \o (IF receiver.at = "file" THEN AskFromHere ELSE <<Header("ZNAK", 0)>>)
      /\ UNCHANGED <<sender, receiver, received>>
      BY DEF ReceiverSeesBadHeader, Replies, SenderOnly
<1>2. CASE receiver.at = "ready"
  <2>1. Header("ZNAK", 0).t = "ZNAK" BY DEF Header
  <2>2. back' = back \o <<Header("ZNAK", 0)>> BY <1>1, <1>2
  <2>3. Says("ZNAK") BY <2>1, <2>2 DEF Says
  <2> QED BY <1>1, <1>2, <2>3, ReceiverIs, ReceiverRests
<1>3. CASE receiver.at = "file"
  <2>1. back' = back \o AskFromHere BY <1>1, <1>3
  <2> QED BY <1>1, <1>3, <2>1, ReceiverAsksForData DEF Filling
<1> QED BY <1>1, <1>2, <1>3

LEMMA ReceiverTakesInKeeps == ASSUME TransferInv, ReceiverTakesIn PROVE TransferInv'
  BY ReceiverTakesOne DEF ReceiverTakesIn, SenderOnly

LEMMA ReceiverAsksKeeps == ASSUME TransferInv, ReceiverAsks PROVE TransferInv'
<1>1. /\ receiver.at = "ready" /\ receiver' = [receiver EXCEPT !.asks = @ + 1] /\ receiver.asks < MaxAsks
      /\ back' = back \o <<Ready>> /\ UNCHANGED <<sender, received, forth>>
      BY DEF ReceiverAsks, Replies, SenderOnly
<1>2. Ready.t = "ZRINIT" BY DEF Ready, Header
<1>3. receiver' \in Receivers /\ receiver'.at = "ready"
  <2>1. receiver \in Receivers /\ receiver.asks + 1 \in 0..MaxAsks
        BY <1>1, ReceiverIs, ZmodemAssumption DEF Receivers
  <2> QED BY <1>1, <2>1 DEF Receivers
<1>4. Says("ZRINIT") BY <1>1, <1>2 DEF Says
<1> QED BY <1>1, <1>3, <1>4, ReceiverRests

LEMMA TerminalShowsItKeeps == ASSUME TransferInv, TerminalShowsIt PROVE TransferInv'
<1>1. receiver.at \in Ended /\ forth' = << >> /\ UNCHANGED <<sender, receiver, received, back>>
      BY DEF TerminalShowsIt, SenderOnly
<1>2. TransferTypes /\ ReceivedOK /\ SenderOK /\ ReceiverOK /\ LineOK /\ ForthOK /\ BackOK BY InvParts
<1>3. IsLine(forth') /\ ~HasOffer(forth') /\ ~HasA(forth', "ZFIN") BY <1>1, EmptyLine, HasNone
<1>4. TransferTypes' BY <1>1, <1>2, <1>3 DEF TransferTypes
<1>5. ReceivedOK' BY <1>1, <1>2 DEF ReceivedOK
<1>6. SenderOK' BY <1>1, <1>2 DEF SenderOK, UpTo, AllSent
<1>7. ReceiverOK' BY <1>1, <1>2 DEF ReceiverOK, Filling, Ended, AllSent
<1>8. LineOK' BY <1>1 DEF LineOK, Filling, Ended
<1>9. ForthOK' BY <1>1, <1>3, NoOfferLine DEF ForthOK
<1>10. BackOK' BY <1>1, <1>2, <1>3 DEF BackOK, UpTo
<1> QED BY <1>4, <1>5, <1>6, <1>7, <1>8, <1>9, <1>10 DEF TransferInv

LEMMA OfferSeen ==
  ASSUME TransferInv, UNCHANGED <<sender, received, back>>, forth # << >>, forth' = Tail(forth), receiver.at = "ready",
         Head(forth).t = "ZFILE", receiver' = [BetweenFiles EXCEPT !.at = "offer"]
  PROVE  TransferInv'
<1>1. TransferTypes /\ ReceivedOK /\ SenderOK /\ ReceiverOK /\ LineOK /\ ForthOK /\ BackOK BY InvParts
<1>2. /\ IsLine(forth') /\ (HasOffer(forth') => HasOffer(forth))
      /\ HasA(forth', "ZFIN") => HasA(forth, "ZFIN")
      /\ OfferLine(forth', sender.file)
      /\ LastOffer(forth) => LastOffer(forth')
      /\ HasOffer(forth)
      BY ForthDropped DEF Offering
<1>3. Offered /\ NothingBack BY <1>1, <1>2 DEF ForthOK
<1>4. receiver' \in Receivers /\ receiver'.at = "offer" BY BetweenIs DEF Receivers, ReceiverPlaces, Subpackets
<1>5. TransferTypes' BY <1>1, <1>2, <1>4 DEF TransferTypes, Receivers
<1>6. ReceivedOK' BY <1>1 DEF ReceivedOK
<1>7. SenderOK' BY <1>3 DEF SenderOK, Offered, Sending
<1>8. ReceiverOK' BY <1>3, <1>4 DEF ReceiverOK, Filling, Offered, NothingBack, UpTo
<1>9. LineOK' BY <1>4 DEF LineOK, Filling
<1>10. ForthOK' BY <1>1, <1>2, <1>3, <1>4 DEF ForthOK, Offered, NothingBack, UpTo, AllSent, Filling
<1>11. BackOK'
  <2>1. sender.at # "start" /\ sender.at \notin Sending BY <1>3 DEF Offered, Sending
  <2> QED BY <1>1, <1>2, <1>3, <2>1 DEF BackOK, NothingBack, Sending, Offered, Ended
<1> QED BY <1>5, <1>6, <1>7, <1>8, <1>9, <1>10, <1>11 DEF TransferInv

LEMMA BatchEnds ==
  ASSUME TransferInv, UNCHANGED <<sender, received>>, forth # << >>, forth' = Tail(forth), receiver.at = "ready",
         Head(forth).t = "ZFIN", receiver' = [BetweenFiles EXCEPT !.at = "ok"], back' = back \o <<Header("ZFIN", 0)>>
  PROVE  TransferInv'
<1>1. TransferTypes /\ ReceivedOK /\ SenderOK /\ ReceiverOK /\ LineOK /\ ForthOK /\ BackOK BY InvParts
<1>2. /\ IsLine(forth') /\ (HasOffer(forth') => HasOffer(forth)) /\ HasA(forth, "ZFIN")
      BY ForthDropped
<1>3. AllSent /\ sender.file \notin Files /\ sender.file # 0 BY <1>1, <1>2, FilesAre DEF ForthOK, AllSent
<1>4. receiver' \in Receivers /\ receiver'.at = "ok" BY BetweenIs DEF Receivers, ReceiverPlaces, Ended
<1> DEFINE h == Header("ZFIN", 0)
<1>5. h.t = "ZFIN" /\ back' = back \o <<h>> BY DEF Header
<1> HIDE DEF h
<1>6. /\ IsLine(back') /\ \A t : HasA(back', t) => HasA(back, t) \/ h.t = t
      /\ \A t, u : Precedes(back', t, u) => Precedes(back, t, u) \/ (HasA(back, t) /\ h.t = u)
  <2>1. IsLine(back) BY InvParts
  <2>2. back' = back \o <<h>> BY <1>5
  <2> QED BY ONLY <2>1, <2>2, Replied
<1>7. sender.at \in {"fin", "finish", "ok", "failed"}
      BY <1>1, <1>3 DEF SenderOK, TransferTypes, SenderPlaces, Offers, Sending, Ended
<1>8. ~HasOffer(forth') BY <1>1, <1>2, <1>3 DEF ForthOK, Offered
<1>9. TransferTypes' BY <1>1, <1>2, <1>4, <1>6 DEF TransferTypes, Receivers
<1>10. ReceivedOK' BY <1>1 DEF ReceivedOK
<1>11. SenderOK' BY <1>3, <1>4, <1>7 DEF SenderOK, Sending, AllSent
<1>12. ReceiverOK' BY <1>3, <1>4 DEF ReceiverOK, Filling, AllSent
<1>13. LineOK' BY <1>4 DEF LineOK, Filling
<1>14. ForthOK' BY <1>3, <1>8, NoOfferLine DEF ForthOK, AllSent
<1>15. BackOK' BY <1>1, <1>5, <1>6, <1>7 DEF BackOK, Sending, Ended
<1> QED BY <1>9, <1>10, <1>11, <1>12, <1>13, <1>14, <1>15 DEF TransferInv

LEMMA ReceiverBetweenFilesKeeps == ASSUME TransferInv, ReceiverBetweenFiles PROVE TransferInv'
<1> DEFINE header == Head(forth)
<1>1. /\ receiver.at = "ready" /\ forth # << >> /\ forth' = Tail(forth) /\ UNCHANGED <<sender, received>>
      BY DEF ReceiverBetweenFiles, SenderOnly
<1>2. \/ receiver' = BetweenFiles /\ back' = back \o <<Ready>>
      \/ header.t = "ZFILE" /\ receiver' = [BetweenFiles EXCEPT !.at = "offer"] /\ UNCHANGED back
      \/ header.t = "ZFIN" /\ receiver' = [BetweenFiles EXCEPT !.at = "ok"] /\ back' = back \o <<Header("ZFIN", 0)>>
      \/ receiver' = BetweenFiles /\ UNCHANGED back
      BY DEF ReceiverBetweenFiles, Replies
<1>3. Ready.t = "ZRINIT" BY DEF Ready, Header
<1>4. CASE receiver' = BetweenFiles /\ (back' = back \o <<Ready>> \/ back' = back)
  <2>1. Says("ZRINIT") \/ UNCHANGED back BY <1>3, <1>4 DEF Says
  <2> QED BY <1>1, <1>4, <2>1, BetweenIs, ReceiverRests
<1>5. CASE header.t = "ZFILE" /\ receiver' = [BetweenFiles EXCEPT !.at = "offer"] /\ UNCHANGED back
      BY <1>1, <1>5, OfferSeen
<1>6. CASE header.t = "ZFIN" /\ receiver' = [BetweenFiles EXCEPT !.at = "ok"] /\ back' = back \o <<Header("ZFIN", 0)>>
      BY <1>1, <1>6, BatchEnds
<1> QED BY <1>2, <1>4, <1>5, <1>6

-----------------------------------------------------------------------------
(* The receiver within a file.                                             *)

(* Within a file the line holds that file only, and the sender is in it.     *)
LEMMA WithinFile ==
  ASSUME TransferInv, receiver.at \in Filling
  PROVE  /\ sender.file \in Offers /\ receiver.file = sender.file /\ UpTo(sender.file - 1)
         /\ Sizes[sender.file] \in Nat /\ Here \in 0..Sizes[sender.file]
         /\ receiver.blocks = BlocksTo(sender.file, Here)
         /\ forth # << >> => sender.at \in {"failed"} \cup Sending
         /\ ~HasOffer(forth) /\ ~HasA(forth, "ZFIN")
<1>1. TransferTypes /\ ReceiverOK /\ ForthOK BY InvParts
<1>2. /\ sender.file \in Offers /\ receiver.file = sender.file /\ UpTo(sender.file - 1)
      /\ Here <= Sizes[sender.file] /\ receiver.blocks = BlocksTo(sender.file, Here)
      /\ forth # << >> => sender.at \in {"failed"} \cup Sending
      BY <1>1 DEF ReceiverOK
<1>3. Here \in Nat /\ Sizes[sender.file] \in Nat
  <2>1. receiver.blocks \in Seq(Nat \X Nat) BY <1>1 DEF TransferTypes
  <2> QED BY <2>1, <1>2, LenProperties, FilesAre DEF Here, Offers
<1>4. ~HasOffer(forth) /\ ~HasA(forth, "ZFIN") BY <1>1, <1>2, FilesAre DEF ForthOK, AllSent, Offers
<1> QED BY <1>2, <1>3, <1>4

LEMMA DataStarts ==
  ASSUME TransferInv, UNCHANGED <<sender, received, back>>, forth # << >>, forth' = Tail(forth), receiver.at = "file",
         Head(forth).t = "ZDATA", Head(forth).position = Here, receiver' = [receiver EXCEPT !.at = "data"]
  PROVE  TransferInv'
<1>1. TransferTypes /\ ReceivedOK /\ SenderOK /\ ReceiverOK /\ LineOK /\ ForthOK /\ BackOK BY InvParts
<1>2. receiver'.at = "data" /\ receiver'.file = receiver.file /\ receiver'.blocks = receiver.blocks
      BY <1>1 DEF TransferTypes
<1>3. /\ sender.at \in {"failed"} \cup Sending /\ sender.file \in Offers /\ UpTo(sender.file - 1)
      /\ ~HasOffer(forth) /\ ~HasA(forth, "ZFIN")
      BY WithinFile DEF Filling
<1>4. IsLine(forth') /\ ~HasOffer(forth') /\ ~HasA(forth', "ZFIN") BY <1>3, ForthDropped
<1>5. TransferTypes' BY <1>1, <1>4 DEF TransferTypes, ReceiverPlaces, Subpackets
<1>6. ReceivedOK' BY <1>1 DEF ReceivedOK
<1>7. SenderOK' BY <1>1, <1>2, <1>3 DEF SenderOK, UpTo, Filling, Sending
<1>8. ReceiverOK' BY <1>1, <1>2, <1>3 DEF ReceiverOK, Filling, UpTo, Here, Sending
<1>9. LineOK'
  <2>1. FileLine(forth, sender.file) /\ (Streaming => EndsAt(forth, sender.position)) BY <1>1 DEF LineOK, Filling
  <2>2. Opens(Head(forth)) /\ After(Head(forth)) = Here BY DEF Opens, After
  <2>3. /\ FileLine(forth', sender.file) /\ StartsAt(forth', sender.file, Here)
        /\ \A p : EndsAt(forth, p) => EndsAt(forth', p) /\ (forth' = << >> => Here = p)
        BY <2>1, <2>2, InvParts, FileTail
  <2> QED BY <2>1, <2>3, <1>2 DEF LineOK, Streaming, Here
<1>10. ForthOK' BY <1>3, <1>4, NoOfferLine DEF ForthOK, Sending
<1>11. BackOK' BY <1>1, <1>2, <1>3, <1>4 DEF BackOK, UpTo, Filling, Sending, Ended
<1> QED BY <1>5, <1>6, <1>7, <1>8, <1>9, <1>10, <1>11 DEF TransferInv

(* ZEOF at the position it is at: the file is whole.                        *)
LEMMA FileEnds ==
  ASSUME TransferInv, UNCHANGED sender, forth # << >>, forth' = Tail(forth), receiver.at = "file",
         Head(forth).t = "ZEOF", Head(forth).position = Here, receiver' = BetweenFiles,
         received' = Append(received, [file |-> receiver.file, blocks |-> receiver.blocks]), Says("ZRINIT")
  PROVE  TransferInv'
<1>1. TransferTypes /\ ReceivedOK /\ SenderOK /\ ReceiverOK /\ LineOK /\ ForthOK /\ BackOK BY InvParts
<1>2. receiver' \in Receivers /\ receiver'.at = "ready" BY BetweenIs
<1>3. /\ sender.at \in {"failed"} \cup Sending /\ sender.file \in Offers /\ UpTo(sender.file - 1)
      /\ receiver.file = sender.file /\ receiver.blocks = BlocksTo(sender.file, Here)
      /\ ~HasOffer(forth) /\ ~HasA(forth, "ZFIN")
      BY WithinFile DEF Filling
<1>4. IsLine(forth') /\ ~HasOffer(forth') /\ ~HasA(forth', "ZFIN") BY <1>3, ForthDropped
<1>5. Here = Sizes[sender.file]
  <2>1. FileLine(forth, sender.file) BY <1>1 DEF LineOK, Filling
  <2>2. OfFile(sender.file, Head(forth)) BY <2>1, InvParts, FileTail
  <2> QED BY <2>2 DEF OfFile, Quiet, Spoilt
<1> DEFINE new == [file |-> receiver.file, blocks |-> receiver.blocks]
<1>6. new = Whole(sender.file) BY <1>3, <1>5 DEF Whole, BlocksTo
<1>7. received' = Append(received, new) OBVIOUS
<1> HIDE DEF new
<1>8. /\ IsLine(received') /\ Len(received) \in Nat /\ Len(received') = Len(received) + 1
      /\ DOMAIN received' = 1..Len(received) + 1 /\ DOMAIN received = 1..Len(received)
      /\ \A n \in 1..Len(received) + 1 : received'[n] = IF n <= Len(received) THEN received[n] ELSE new
  <2>1. IsLine(received) BY InvParts
  <2>2. IsLine(<<new>>) /\ Len(<<new>>) = 1 /\ <<new>>[1] = new BY OneLine
  <2>3. received' = received \o <<new>> BY <2>1, <1>7, AppendLine
  <2> DEFINE u == <<new>>
  <2>4. received' = received \o u /\ IsLine(u) /\ Len(u) = 1 /\ u[1] = new BY <2>2, <2>3
  <2> HIDE DEF u
  <2>5. /\ IsLine(received') /\ Len(received') = Len(received) + Len(u)
        /\ \A i \in 1..Len(received) + Len(u) : received'[i] = IF i <= Len(received) THEN received[i] ELSE u[i - Len(received)]
        BY ONLY <2>1, <2>4, ConcatLine
  <2>6. Len(received) \in Nat /\ DOMAIN received = 1..Len(received) BY <2>1, LineIs
  <2>7. DOMAIN received' = 1..Len(received') BY <2>5, LineIs
  <2>8. \A n \in 1..Len(received) + 1 : n <= Len(received) \/ n - Len(received) = 1 BY <2>6
  <2> QED BY ONLY <2>4, <2>5, <2>6, <2>7, <2>8
<1>9. /\ Len(received) < Len(Taken) /\ Taken[Len(received) + 1] = sender.file
      /\ Through(Len(received) + 1, sender.file)
  <2>1. sender.file \in Files BY <1>3 DEF Offers
  <2> QED BY <2>1, <1>1, <1>3, <1>8, ThroughNext DEF ReceivedOK, UpTo
<1>10. ReceivedOK'
  <2>1. Len(received') <= Len(Taken) BY <1>8, <1>9, TakenLists
  <2>2. ASSUME NEW n \in DOMAIN received' PROVE received'[n] = Whole(Taken[n])
    <3>1. CASE n <= Len(received)
      <4>1. n \in DOMAIN received /\ received'[n] = received[n] BY <3>1, <1>8
      <4> QED BY <4>1, <1>1 DEF ReceivedOK
    <3>2. CASE n = Len(received) + 1 BY <3>2, <1>6, <1>8, <1>9
    <3> QED BY <3>1, <3>2, <1>8
  <2> QED BY <2>1, <2>2 DEF ReceivedOK
<1>11. UpTo(sender.file)' BY <1>8, <1>9 DEF UpTo
<1>12. /\ IsLine(back') /\ \A t : HasA(back', t) => HasA(back, t) \/ t = "ZRINIT"
       /\ \A t, u : Precedes(back', t, u) => Precedes(back, t, u) \/ (HasA(back, t) /\ u = "ZRINIT")
       /\ \A f : Positions(back, f) => Positions(back', f)
  <2>1. PICK h : h.t = "ZRINIT" /\ back' = back \o <<h>> BY DEF Says
  <2>2. IsLine(back) BY InvParts
  <2> QED BY ONLY <2>1, <2>2, Replied
<1>13. TransferTypes' BY <1>1, <1>2, <1>4, <1>8, <1>12 DEF TransferTypes, Receivers
<1>14. SenderOK' BY <1>1, <1>2, <1>3, <1>11 DEF SenderOK, Filling, Sending
<1>15. ReceiverOK' BY <1>2 DEF ReceiverOK, Filling
<1>16. LineOK' BY <1>2 DEF LineOK, Filling
<1>17. ForthOK' BY <1>3, <1>4, NoOfferLine DEF ForthOK, Sending
<1>18. BackOK'
  <2>1. sender.at \in Sending => ~HasA(back, "ZSKIP") /\ ~Precedes(back, "ZRINIT", "ZRPOS")
        BY <1>1 DEF BackOK, Sending, Ended
  <2> QED BY <2>1, <1>1, <1>2, <1>3, <1>11, <1>12, PrecedesHas DEF BackOK, Sending, Ended
<1> QED BY <1>10, <1>13, <1>14, <1>15, <1>16, <1>17, <1>18 DEF TransferInv

LEMMA ReceiverWithinFileKeeps == ASSUME TransferInv, ReceiverWithinFile PROVE TransferInv'
<1> DEFINE header == Head(forth)
<1>1. /\ receiver.at = "file" /\ forth # << >> /\ forth' = Tail(forth) /\ UNCHANGED sender
      BY DEF ReceiverWithinFile, SenderOnly
<1>2. header.t # "ZFILE"
  <2>1. ~HasOffer(forth) BY <1>1, WithinFile DEF Filling
  <2> QED BY <2>1, <1>1, ForthDropped DEF Offering
<1>3. \/ back' = back \o AskFromHere /\ UNCHANGED <<receiver, received>>
      \/ /\ header.t = "ZDATA" /\ header.position = Here
         /\ receiver' = [receiver EXCEPT !.at = "data"] /\ UNCHANGED <<received, back>>
      \/ /\ header.t = "ZEOF" /\ header.position = Here
         /\ received' = Append(received, [file |-> receiver.file, blocks |-> receiver.blocks])
         /\ receiver' = BetweenFiles /\ back' = back \o <<Ready>>
      \/ UNCHANGED <<receiver, received, back>>
      BY <1>2 DEF ReceiverWithinFile, OutOfStep, Replies
<1>4. CASE back' = back \o AskFromHere /\ UNCHANGED <<receiver, received>>
      BY <1>1, <1>4, ReceiverAsksForData DEF Filling
<1>5. CASE /\ header.t = "ZDATA" /\ header.position = Here
           /\ receiver' = [receiver EXCEPT !.at = "data"] /\ UNCHANGED <<received, back>>
      BY <1>1, <1>5, DataStarts
<1>6. CASE /\ header.t = "ZEOF" /\ header.position = Here
           /\ received' = Append(received, [file |-> receiver.file, blocks |-> receiver.blocks])
           /\ receiver' = BetweenFiles /\ back' = back \o <<Ready>>
  <2>1. Ready.t = "ZRINIT" BY DEF Ready, Header
  <2>2. Says("ZRINIT") BY <1>6, <2>1 DEF Says
  <2> QED BY <1>1, <1>6, <2>2, FileEnds
<1>7. CASE UNCHANGED <<receiver, received, back>> BY <1>1, <1>7, ReceiverTakesOne
<1> QED BY <1>3, <1>4, <1>5, <1>6, <1>7

-----------------------------------------------------------------------------
(* The receiver in a subpacket.                                            *)

LEMMA BlocksToIs ==
  ASSUME NEW f \in Nat, NEW n \in Nat
  PROVE  BlocksTo(f, n) \in Seq(Nat \X Nat) /\ Len(BlocksTo(f, n)) = n
<1> DEFINE b == BlocksTo(f, n)
<1>1. b \in [1..n -> Nat \X Nat] BY DEF BlocksTo
<1>2. b \in Seq(Nat \X Nat) BY <1>1, SeqDef
<1>3. DOMAIN b = 1..n /\ DOMAIN b = 1..Len(b) /\ Len(b) \in Nat BY <1>1, <1>2, LenProperties
<1> HIDE DEF b
<1>4. Len(b) = n
  <2> DEFINE l == Len(b)
  <2>1. 1..n = 1..l /\ l \in Nat BY <1>3
  <2> HIDE DEF l
  <2>2. \A i \in Int : (1 <= i /\ i <= n) <=> (1 <= i /\ i <= l) BY <2>1
  <2>3. l = n
    <3>1. n > 0 => n <= l BY <2>2
    <3>2. l > 0 => l <= n BY <2>1, <2>2
    <3> QED BY <2>1, <3>1, <3>2
  <2> QED BY <2>3 DEF l
<1> QED BY <1>2, <1>4 DEF b

LEMMA BlockAdded ==
  ASSUME NEW f \in Files, NEW n \in 0..Sizes[f]
  PROVE  LET m == IF n = Sizes[f] THEN n ELSE n + 1
         IN  /\ BlocksTo(f, n) \o DataAt(f, n).blocks = BlocksTo(f, m)
             /\ m \in 0..Sizes[f] /\ BlocksTo(f, m) \in Seq(Nat \X Nat) /\ Len(BlocksTo(f, m)) = m
<1>1. f \in Nat /\ n \in Nat /\ Sizes[f] \in Nat BY FilesAre
<1> DEFINE m == IF n = Sizes[f] THEN n ELSE n + 1
           a == BlocksTo(f, n)
           b == DataAt(f, n).blocks
           c == BlocksTo(f, m)
<1>2. m \in Nat /\ m \in 0..Sizes[f] BY <1>1
<1>3. a \in Seq(Nat \X Nat) /\ Len(a) = n /\ c \in Seq(Nat \X Nat) /\ Len(c) = m
  <2> HIDE DEF m
  <2> QED BY <1>1, <1>2, BlocksToIs
<1>4. b = IF n = Sizes[f] THEN << >> ELSE <<<<f, n + 1>>>> BY DEF DataAt, Subpacket
<1>5. a \o b = c
  <2>1. CASE n = Sizes[f]
    <3>1. b = << >> /\ m = n BY <2>1, <1>4
    <3>2. a \o << >> = a BY <1>3, ConcatEmptySeq
    <3> QED BY <3>1, <3>2
  <2>2. CASE n # Sizes[f]
    <3> DEFINE e == <<f, n + 1>>
    <3>1. b = <<e>> /\ m = n + 1 BY <2>2, <1>4
    <3>2. e \in Nat \X Nat BY <1>1
    <3>3. /\ \A i \in 1..n : a[i] = <<f, i>>
          /\ \A i \in 1..n + 1 : c[i] = <<f, i>>
          BY <3>1 DEF BlocksTo
    <3>9. e = <<f, n + 1>> OBVIOUS
    <3> HIDE DEF a, b, c, m, e
    <3>4. a \o <<e>> = Append(a, e) BY <1>3, <3>2, AppendIsConcat
    <3> DEFINE r == Append(a, e)
               T == Nat \X Nat
    <3>10. a \in Seq(T) /\ e \in T BY <1>3, <3>2
    <3> HIDE DEF T
    <3>11. /\ r \in Seq(T) /\ Len(r) = Len(a) + 1 /\ (\A i \in 1..Len(a) : r[i] = a[i]) /\ r[Len(a) + 1] = e
           BY ONLY <3>10, AppendProperties
    <3> HIDE DEF r
    <3>5. /\ r \in Seq(Nat \X Nat) /\ Len(r) = Len(a) + 1 /\ (\A i \in 1..Len(a) : r[i] = a[i])
          /\ r[Len(a) + 1] = e
          BY <3>11 DEF T
    <3>6. Len(r) = Len(c) BY <3>1, <3>5, <1>3
    <3>7. ASSUME NEW i \in 1..Len(r) PROVE r[i] = c[i]
      <4>1. CASE i <= n
        <5>1. i \in 1..n /\ i \in 1..Len(a) /\ i \in 1..n + 1 BY <4>1, <1>1, <1>3, <3>5
        <5> QED BY <5>1, <3>3, <3>5
      <4>2. CASE i = n + 1
        <5>1. n + 1 \in 1..n + 1 BY <1>1
        <5>2. c[n + 1] = <<f, n + 1>> BY <5>1, <3>3
        <5>3. r[n + 1] = e BY <3>5, <1>3
        <5> QED BY <4>2, <5>2, <5>3, <3>9
      <4> QED BY <1>1, <1>3, <3>5, <4>1, <4>2
    <3>8. r = c BY <1>3, <3>5, <3>6, <3>7, SeqEqual
    <3> QED BY <3>1, <3>4, <3>8 DEF r
  <2> QED BY <2>1, <2>2
<1> HIDE DEF a, b, c, m
<1>6. a \o b = c /\ m \in 0..Sizes[f] /\ c \in Seq(Nat \X Nat) /\ Len(c) = m BY <1>2, <1>3, <1>5
<1> QED BY <1>6 DEF a, b, c, m

(* A subpacket whose checksum is right is the next block.                   *)
LEMMA BlockTaken ==
  ASSUME TransferInv, UNCHANGED <<sender, received, back>>, forth # << >>, forth' = Tail(forth), receiver.at = "data",
         receiver.right, Head(forth).t = "data",
         receiver' = [receiver EXCEPT !.blocks = @ \o Head(forth).blocks,
                                      !.at = IF Head(forth).last THEN "file" ELSE "data"]
  PROVE  TransferInv'
<1>1. TransferTypes /\ ReceivedOK /\ SenderOK /\ ReceiverOK /\ LineOK /\ ForthOK /\ BackOK BY InvParts
<1> DEFINE f == sender.file
           n == Here
           m == IF n = Sizes[f] THEN n ELSE n + 1
           e == Head(forth)
<1>2. /\ sender.at \in {"failed"} \cup Sending /\ f \in Offers /\ UpTo(f - 1) /\ receiver.file = f
      /\ receiver.blocks = BlocksTo(f, n) /\ n \in 0..Sizes[f] /\ Sizes[f] \in Nat /\ f \in Files
      /\ ~HasOffer(forth) /\ ~HasA(forth, "ZFIN")
      BY WithinFile DEF Filling, Offers
<1>3. IsLine(forth') /\ ~HasOffer(forth') /\ ~HasA(forth', "ZFIN") BY <1>2, ForthDropped
<1>4. /\ FileLine(forth, f) /\ (Streaming => EndsAt(forth, sender.position)) /\ StartsAt(forth, f, n)
      BY <1>1 DEF LineOK, Filling
<1>5. e = DataAt(f, n)
  <2>1. e = forth[1] BY InvParts, TailLine
  <2> QED BY <2>1, <1>4 DEF StartsAt, Continues
<1>6. /\ BlocksTo(f, n) \o e.blocks = BlocksTo(f, m) /\ m \in 0..Sizes[f] /\ BlocksTo(f, m) \in Seq(Nat \X Nat)
      /\ Len(BlocksTo(f, m)) = m
  <2>1. /\ BlocksTo(f, n) \o DataAt(f, n).blocks = BlocksTo(f, m) /\ m \in 0..Sizes[f]
        /\ BlocksTo(f, m) \in Seq(Nat \X Nat) /\ Len(BlocksTo(f, m)) = m
        BY ONLY <1>2, BlockAdded
  <2>2. e.blocks = DataAt(f, n).blocks BY <1>5
  <2> HIDE DEF m, e
  <2> QED BY <2>1, <2>2
<1>7. e.last <=> n + 1 >= Sizes[f]
  <2>1. DataAt(f, n).last <=> n + 1 >= Sizes[f] BY DEF DataAt, Subpacket
  <2>2. e.last = DataAt(f, n).last BY <1>5
  <2> HIDE DEF e
  <2> QED BY <2>1, <2>2
<1>8. ~e.last => Opens(e) /\ After(e) = m
  <2> SUFFICES ASSUME ~e.last PROVE Opens(e) /\ After(e) = m OBVIOUS
  <2>1. n # Sizes[f] /\ m = n + 1 BY <1>2, <1>7
  <2>2. e.blocks = <<<<f, n + 1>>>> BY <1>5, <2>1 DEF DataAt, Subpacket
  <2>3. (<<<<f, n + 1>>>>)[1][2] = n + 1 OBVIOUS
  <2> HIDE DEF m, e
  <2>4. e.t = "data" BY DEF e
  <2> QED BY <2>1, <2>2, <2>3, <2>4 DEF Opens, After
<1>9. /\ receiver'.at = (IF e.last THEN "file" ELSE "data") /\ receiver'.file = f /\ receiver'.blocks = BlocksTo(f, m)
      /\ receiver'.right = receiver.right /\ Here' = m
  <2>1. /\ receiver'.at = (IF e.last THEN "file" ELSE "data") /\ receiver'.file = receiver.file
        /\ receiver'.blocks = receiver.blocks \o e.blocks /\ receiver'.right = receiver.right
        BY <1>1 DEF TransferTypes
  <2>2. receiver'.blocks = BlocksTo(f, m) BY <2>1, <1>2, <1>6
  <2> QED BY <2>1, <2>2, <1>2, <1>6 DEF Here
<1>10. /\ FileLine(forth', f)
       /\ ~e.last => StartsAt(forth', f, m)
       /\ \A p : EndsAt(forth, p) => EndsAt(forth', p) /\ (forth' = << >> /\ ~e.last => m = p)
  <2>1. /\ FileLine(forth', f)
        /\ Opens(e) => StartsAt(forth', f, After(e))
        /\ \A p : EndsAt(forth, p) => EndsAt(forth', p) /\ (forth' = << >> /\ Opens(e) => After(e) = p)
        BY <1>4, InvParts, FileTail
  <2> HIDE DEF m, e
  <2> QED BY <2>1, <1>8
<1> HIDE DEF m, e
<1>11. receiver'.at \in Filling /\ receiver'.at \in {"file", "data"} BY <1>9 DEF Filling
<1>12. TransferTypes'
  <2>1. receiver' = [receiver EXCEPT !.blocks = BlocksTo(f, m), !.at = IF e.last THEN "file" ELSE "data"]
        BY <1>2, <1>6 DEF e
  <2> QED BY <2>1, <1>1, <1>3, <1>6 DEF TransferTypes, ReceiverPlaces, Subpackets
<1>13. ReceivedOK' BY <1>1 DEF ReceivedOK
<1>14. SenderOK' BY <1>1, <1>2, <1>11 DEF SenderOK, UpTo, Filling, Sending
<1>15. ReceiverOK'
  <2>1. /\ sender'.file \in Offers /\ receiver'.file = sender'.file /\ UpTo(sender.file - 1)'
        /\ sender'.at \in {"failed"} \cup Sending
        BY <1>2, <1>9 DEF UpTo
  <2>2. Here' <= Sizes[sender'.file] /\ receiver'.blocks = BlocksTo(sender'.file, Here')
    <3>1. sender' = sender OBVIOUS
    <3> QED BY ONLY <3>1, <1>2, <1>6, <1>9
  <2> QED BY <2>1, <2>2, <1>11 DEF ReceiverOK, Sending
<1>16. LineOK' BY <1>4, <1>9, <1>10 DEF LineOK, Streaming
<1>17. ForthOK' BY <1>2, <1>3, NoOfferLine DEF ForthOK, Sending
<1>18. BackOK' BY <1>1, <1>2, <1>3, <1>11 DEF BackOK, UpTo, Filling, Sending, Ended
<1> QED BY <1>12, <1>13, <1>14, <1>15, <1>16, <1>17, <1>18 DEF TransferInv

(* What is read of the offer is the sender's, and nothing of a file follows.  *)
LEMMA OfferRead ==
  ASSUME TransferInv, forth # << >>, receiver.at = "offer", Head(forth).t = "info"
  PROVE  /\ Head(forth).blocks = <<sender.file>> /\ Offered /\ NothingBack
         /\ IsLine(Tail(forth)) /\ ~HasOffer(Tail(forth)) /\ ~HasA(Tail(forth), "ZFIN")
         /\ \A n \in DOMAIN Tail(forth) : Quiet(Tail(forth)[n])
         /\ sender.at = "offered" => Tail(forth) = << >>
<1>1. ForthOK /\ ReceiverOK /\ IsLine(forth) BY InvParts
<1>2. Offered /\ NothingBack BY <1>1 DEF ReceiverOK
<1>3. /\ Head(forth) = Subpacket("info", <<sender.file>>, TRUE)
      /\ \A n \in DOMAIN Tail(forth) : Quiet(Tail(forth)[n])
      BY <1>1, OfferTail DEF ForthOK
<1>4. Head(forth).blocks = <<sender.file>> BY <1>3 DEF Subpacket
<1>5. sender.at = "offered" => Tail(forth) = << >> BY <1>1, LastTail DEF ForthOK
<1> DEFINE r == Tail(forth)
<1>6. IsLine(r) /\ \A n \in DOMAIN r : Quiet(r[n]) BY <1>1, <1>3, TailLine
<1> HIDE DEF r
<1>7. ~HasOffer(r) /\ ~HasA(r, "ZFIN") BY <1>6, QuietIs DEF HasOffer, HasA
<1> QED BY <1>2, <1>3, <1>4, <1>5, <1>6, <1>7 DEF r

LEMMA OfferRefused ==
  ASSUME TransferInv, UNCHANGED <<sender, received>>, forth # << >>, forth' = Tail(forth), receiver.at = "offer",
         Head(forth).t = "info", Head(forth).blocks[1] \in TooBig,
         receiver' = [receiver EXCEPT !.at = "ready", !.right = TRUE], Says("ZSKIP")
  PROVE  TransferInv'
<1>1. TransferTypes /\ ReceivedOK /\ SenderOK /\ ReceiverOK /\ LineOK /\ ForthOK /\ BackOK BY InvParts
<1>2. /\ Head(forth).blocks = <<sender.file>> /\ Offered /\ NothingBack
      /\ IsLine(forth') /\ ~HasOffer(forth') /\ ~HasA(forth', "ZFIN")
      BY OfferRead
<1>3. sender.file \in TooBig /\ UpTo(sender.file - 1) /\ sender.at \in {"offered", "failed"}
      BY <1>2 DEF Offered
<1>4. /\ IsLine(back') /\ \A t : HasA(back', t) => HasA(back, t) \/ t = "ZSKIP"
      /\ \A t, u : Precedes(back', t, u) => Precedes(back, t, u) \/ (HasA(back, t) /\ u = "ZSKIP")
  <2>1. PICK h : h.t = "ZSKIP" /\ back' = back \o <<h>> BY DEF Says
  <2>2. IsLine(back) BY InvParts
  <2> QED BY ONLY <2>1, <2>2, Replied
<1>5. receiver'.at = "ready" BY <1>1 DEF TransferTypes
<1>6. TransferTypes' BY <1>1, <1>2, <1>4 DEF TransferTypes, ReceiverPlaces
<1>7. ReceivedOK' BY <1>1 DEF ReceivedOK
<1>8. SenderOK' BY <1>1, <1>3 DEF SenderOK, Sending
<1>9. ReceiverOK' BY <1>5 DEF ReceiverOK, Filling
<1>10. LineOK' BY <1>5 DEF LineOK, Filling
<1>11. ForthOK' BY <1>2, NoOfferLine DEF ForthOK
<1>12. BackOK'
  <2>1. sender.at = "offered" => ~HasA(back, "ZRPOS") /\ ~HasA(back, "ZSKIP") BY <1>2 DEF NothingBack
  <2>2. sender.at = "offered" => ~HasA(back', "ZRPOS") /\ ~Precedes(back', "ZRPOS", "ZRINIT")
                                 /\ ~Precedes(back', "ZSKIP", "ZSKIP")
        BY <2>1, <1>4, PrecedesHas
  <2> QED BY <2>2, <1>2, <1>3, <1>5 DEF BackOK, Sending, Ended, UpTo
<1> QED BY <1>6, <1>7, <1>8, <1>9, <1>10, <1>11, <1>12 DEF TransferInv

LEMMA OfferTaken ==
  ASSUME TransferInv, UNCHANGED <<sender, received>>, forth # << >>, forth' = Tail(forth), receiver.at = "offer",
         Head(forth).t = "info", Head(forth).blocks[1] \notin TooBig,
         receiver' = [BetweenFiles EXCEPT !.at = "file", !.file = Head(forth).blocks[1]],
         back' = back \o <<Header("ZRPOS", 0)>>
  PROVE  TransferInv'
<1>1. TransferTypes /\ ReceivedOK /\ SenderOK /\ ReceiverOK /\ LineOK /\ ForthOK /\ BackOK BY InvParts
<1>2. /\ Head(forth).blocks = <<sender.file>> /\ Offered /\ NothingBack
      /\ IsLine(forth') /\ ~HasOffer(forth') /\ ~HasA(forth', "ZFIN")
      /\ \A n \in DOMAIN forth' : Quiet(forth'[n])
      /\ sender.at = "offered" => forth' = << >>
      BY OfferRead
<1>3. /\ sender.file \in Offers /\ UpTo(sender.file - 1) /\ sender.at \in {"offered", "failed"}
      /\ Head(forth).blocks[1] = sender.file
      BY <1>2 DEF Offered, Offers
<1>4. Sizes[sender.file] \in Nat /\ sender.file \in Files BY <1>3, FilesAre DEF Offers
<1> DEFINE h == Header("ZRPOS", 0)
<1>5. h.t = "ZRPOS" /\ h.position = 0 /\ back' = back \o <<h>> BY DEF Header
<1> HIDE DEF h
<1>6. /\ IsLine(back') /\ \A t : HasA(back', t) => HasA(back, t) \/ t = "ZRPOS"
      /\ \A t, u : Precedes(back', t, u) => Precedes(back, t, u) \/ (HasA(back, t) /\ u = "ZRPOS")
      /\ Positions(back, sender.file) => Positions(back', sender.file)
  <2>1. IsLine(back) BY InvParts
  <2>2. h.position \in 0..Sizes[sender.file] BY <1>4, <1>5
  <2>3. back' = back \o <<h>> /\ h.t = "ZRPOS" BY <1>5
  <2> QED BY ONLY <2>1, <2>2, <2>3, Replied
<1>7. /\ receiver' \in Receivers /\ receiver'.at = "file" /\ receiver'.file = sender.file /\ receiver'.blocks = << >>
      BY <1>3, <1>4, BetweenIs DEF Receivers, ReceiverPlaces, BetweenFiles
<1>8. Here' = 0 /\ receiver'.blocks = BlocksTo(sender.file, 0)
  <2>1. Here' = 0 BY <1>7, EmptySeq DEF Here
  <2>2. 1..0 = {} OBVIOUS
  <2>3. BlocksTo(sender.file, 0) = << >> BY <2>2 DEF BlocksTo
  <2> QED BY <2>1, <2>3, <1>7
<1>9. TransferTypes' BY <1>1, <1>2, <1>6, <1>7 DEF TransferTypes, Receivers
<1>10. ReceivedOK' BY <1>1 DEF ReceivedOK
<1>11. SenderOK' BY <1>3, <1>4 DEF SenderOK, Sending
<1>12. ReceiverOK' BY <1>2, <1>3, <1>4, <1>7, <1>8 DEF ReceiverOK, Filling, UpTo
<1>13. LineOK'
  <2>1. FileLine(forth', sender.file) BY <1>2, QuietIs DEF FileLine
  <2> QED BY <2>1, <1>3, <1>7 DEF LineOK, Streaming
<1>14. ForthOK' BY <1>2, NoOfferLine DEF ForthOK
<1>15. BackOK'
  <2>1. sender.at = "offered" => ~HasA(back, "ZRPOS") /\ ~HasA(back, "ZSKIP") BY <1>2 DEF NothingBack
  <2>2. ~HasA(back, "ZRPOS") => Positions(back', sender.file)
    <3>1. ~HasA(back, "ZRPOS") => Positions(back, sender.file) BY DEF HasA, Positions
    <3> QED BY <3>1, <1>6
  <2>3. sender.at = "offered" => ~HasA(back', "ZSKIP") /\ ~Precedes(back', "ZRPOS", "ZRINIT")
                                 /\ ~Precedes(back', "ZSKIP", "ZSKIP")
        BY <2>1, <1>6, PrecedesHas
  <2> QED BY <2>1, <2>2, <2>3, <1>3, <1>7 DEF BackOK, Sending, Filling, Ended
<1> QED BY <1>9, <1>10, <1>11, <1>12, <1>13, <1>14, <1>15 DEF TransferInv

LEMMA ReceiverReadsSubpacketKeeps == ASSUME TransferInv, ReceiverReadsSubpacket PROVE TransferInv'
<1> DEFINE e == Head(forth)
           offered == receiver.right /\ e.t = "info"
           filled == receiver.right /\ e.t = "data"
<1>1. /\ receiver.at \in Subpackets /\ forth # << >> /\ forth' = Tail(forth) /\ UNCHANGED <<sender, received>>
      BY DEF ReceiverReadsSubpacket, SenderOnly
<1>2. receiver.at # "offered again" BY InvParts DEF ReceiverOK
<1>3. receiver \in Receivers BY ReceiverIs
<1>4. \/ receiver.at = "offer" /\ Then("ready") /\ back' = back \o <<Header("ZNAK", 0)>>
      \/ receiver.at = "offer" /\ offered /\ e.blocks[1] \in TooBig /\ Then("ready") /\ back' = back \o <<Header("ZSKIP", 0)>>
      \/ /\ receiver.at = "offer" /\ offered /\ e.blocks[1] \notin TooBig
         /\ receiver' = [BetweenFiles EXCEPT !.at = "file", !.file = e.blocks[1]]
         /\ back' = back \o <<Header("ZRPOS", 0)>>
      \/ receiver.at = "data" /\ Then("failed") /\ UNCHANGED back
      \/ /\ receiver.at = "data" /\ filled /\ UNCHANGED back
         /\ receiver' = [receiver EXCEPT !.blocks = @ \o e.blocks, !.at = IF e.last THEN "file" ELSE "data"]
      \/ receiver.at = "data" /\ Then("file") /\ back' = back \o AskFromHere
      BY <1>1, <1>2 DEF ReceiverReadsSubpacket, Subpackets, Replies, HasData
<1>5. CASE receiver.at = "offer" /\ Then("ready") /\ back' = back \o <<Header("ZNAK", 0)>>
  <2>1. Header("ZNAK", 0).t = "ZNAK" BY DEF Header
  <2>2. Says("ZNAK") BY <1>5, <2>1 DEF Says
  <2>3. receiver' \in Receivers /\ receiver'.at = "ready" BY <1>3, <1>5 DEF Then, Receivers, ReceiverPlaces
  <2> QED BY <1>1, <1>5, <2>2, <2>3, ReceiverRests
<1>6. CASE receiver.at = "offer" /\ offered /\ e.blocks[1] \in TooBig /\ Then("ready") /\ back' = back \o <<Header("ZSKIP", 0)>>
  <2>1. Header("ZSKIP", 0).t = "ZSKIP" BY DEF Header
  <2>2. Says("ZSKIP") BY <1>6, <2>1 DEF Says
  <2> QED BY <1>1, <1>6, <2>2, OfferRefused DEF Then
<1>7. CASE /\ receiver.at = "offer" /\ offered /\ e.blocks[1] \notin TooBig
           /\ receiver' = [BetweenFiles EXCEPT !.at = "file", !.file = e.blocks[1]]
           /\ back' = back \o <<Header("ZRPOS", 0)>>
      BY <1>1, <1>7, OfferTaken
<1>8. CASE receiver.at = "data" /\ Then("failed") /\ UNCHANGED back
  <2>1. receiver' \in Receivers /\ receiver'.at = "failed" BY <1>3, <1>8 DEF Then, Receivers, ReceiverPlaces, Ended
  <2> QED BY <1>1, <1>8, <2>1, ReceiverRests
<1>9. CASE /\ receiver.at = "data" /\ filled /\ UNCHANGED back
           /\ receiver' = [receiver EXCEPT !.blocks = @ \o e.blocks, !.at = IF e.last THEN "file" ELSE "data"]
      BY <1>1, <1>9, BlockTaken
<1>10. CASE receiver.at = "data" /\ Then("file") /\ back' = back \o AskFromHere
  <2>1. receiver' = [receiver EXCEPT !.at = "file", !.right = TRUE] /\ receiver'.at = "file"
        BY <1>3, <1>10 DEF Then, Receivers
  <2> QED BY <1>1, <1>10, <2>1, ReceiverAsksForData DEF Filling
<1> QED BY <1>4, <1>5, <1>6, <1>7, <1>8, <1>9, <1>10

-----------------------------------------------------------------------------
(* What goes wrong.                                                        *)

LEMMA CancelSent ==
  ASSUME NEW s, IsLine(s)
  PROVE  LET r == s \o <<Cancel>>
         IN  /\ IsLine(r) /\ (HasOffer(r) => HasOffer(s)) /\ (HasA(r, "ZFIN") => HasA(s, "ZFIN"))
             /\ \A f : OfferLine(s, f) => OfferLine(r, f)
             /\ \A f : FileLine(s, f) => FileLine(r, f)
             /\ \A f, p : StartsAt(s, f, p) => StartsAt(r, f, p)
<1> DEFINE w == <<Cancel>>
           e == Cancel
<1>1. Quiet(e) BY DEF Quiet, Cancel
<1> HIDE DEF e
<1>2. IsLine(<<e>>) /\ <<e>>[1] = e /\ Len(<<e>>) = 1 /\ ~HasOffer(<<e>>) /\ ~HasA(<<e>>, "ZFIN")
  <2>1. ~Offering(e) /\ e.t # "ZFIN" BY <1>1, QuietIs
  <2> QED BY <2>1, OneLine, HasOne
<1>3. \A f : OfferLine(s, f) => OfferLine(s \o <<e>>, f) BY <1>1, OfferCancelled
<1>4. w = <<e>> BY DEF e
<1> HIDE DEF w
<1>5. IsLine(w) /\ w[1] = e /\ Len(w) = 1 /\ ~HasOffer(w) /\ ~HasA(w, "ZFIN") BY <1>2, <1>4
<1>6. w # << >> /\ DOMAIN w = 1..1 BY <1>5, LineIs, NoneInIt
<1>7. \A f : FileLine(w, f) /\ \A p : StartsAt(w, f, p)
  <2>1. ~Opens(e) /\ \A f : OfFile(f, e) /\ \A p : Continues(f, p, e) BY <1>1, QuietIs
  <2> QED BY <2>1, <1>5, <1>6 DEF FileLine, StartsAt
<1>8. w[1].t # "data" BY <1>1, <1>5 DEF Quiet
<1>9. IsLine(s \o w) /\ (HasOffer(s \o w) => HasOffer(s)) /\ (HasA(s \o w, "ZFIN") => HasA(s, "ZFIN"))
      BY <1>5, ConcatLine, HasConcat
<1>10. ASSUME NEW f, FileLine(s, f)
       PROVE  FileLine(s \o w, f)
       BY <1>5, <1>6, <1>7, <1>8, <1>10, FileConcat
<1>11. ASSUME NEW f, NEW p, StartsAt(s, f, p)
       PROVE  StartsAt(s \o w, f, p)
  <2> DEFINE r == s \o w
  <2>1. /\ Len(r) = Len(s) + Len(w)
        /\ \A i \in 1..Len(s) + Len(w) : r[i] = IF i <= Len(s) THEN s[i] ELSE w[i - Len(s)]
        BY <1>5, ConcatLine
  <2> HIDE DEF r
  <2>2. Len(s) \in Nat BY LineIs
  <2>3. CASE s = << >>
    <3>1. Len(s) = 0 BY <2>3, NoneInIt
    <3>2. r[1] = e BY <3>1, <2>1, <1>5
    <3> QED BY <3>2, <1>5, <1>6, <1>7 DEF StartsAt, r
  <2>4. CASE s # << >>
    <3>1. Len(s) >= 1 BY <2>2, <2>4, NoneInIt
    <3>2. r[1] = s[1] BY <3>1, <2>1, <2>2, <1>5
    <3> QED BY <3>2, <2>4, <1>11 DEF StartsAt, r
  <2> QED BY <2>3, <2>4
<1>12. \A f : OfferLine(s, f) => OfferLine(s \o w, f) BY <1>3, <1>4
<1> HIDE DEF w
<1> DEFINE r == s \o w
<1>13. /\ IsLine(r) /\ (HasOffer(r) => HasOffer(s)) /\ (HasA(r, "ZFIN") => HasA(s, "ZFIN"))
       /\ \A f : OfferLine(s, f) => OfferLine(r, f)
       /\ \A f : FileLine(s, f) => FileLine(r, f)
       /\ \A f, p : StartsAt(s, f, p) => StartsAt(r, f, p)
       BY <1>9, <1>10, <1>11, <1>12
<1> HIDE DEF r
<1> QED BY <1>13 DEF r, w

LEMMA SenderStops ==
  ASSUME TransferInv, UNCHANGED <<receiver, received, back>>,
         \/ sender' = [sender EXCEPT !.at = "failed"] /\ (forth' = forth \/ forth' = forth \o <<Cancel>>)
         \/ sender.at = "finish" /\ sender' = [sender EXCEPT !.at = "ok"] /\ forth' = forth,
         sender.at \notin Ended
  PROVE  TransferInv'
<1>1. TransferTypes /\ ReceivedOK /\ SenderOK /\ ReceiverOK /\ LineOK /\ ForthOK /\ BackOK BY InvParts
<1>2. sender'.file = sender.file /\ (sender'.at = "failed" \/ (sender'.at = "ok" /\ sender.at = "finish" /\ forth' = forth))
      BY <1>1 DEF TransferTypes
<1>3. AllSent' <=> AllSent BY <1>2 DEF AllSent
<1>4. /\ IsLine(forth') /\ (HasOffer(forth') => HasOffer(forth)) /\ (HasA(forth', "ZFIN") => HasA(forth, "ZFIN"))
      /\ OfferLine(forth', sender.file)
      /\ \A f : FileLine(forth, f) => FileLine(forth', f)
      /\ \A f, p : StartsAt(forth, f, p) => StartsAt(forth', f, p)
  <2>1. IsLine(forth) /\ OfferLine(forth, sender.file) BY InvParts DEF ForthOK
  <2>2. CASE forth' = forth BY <2>1, <2>2
  <2>3. CASE forth' = forth \o <<Cancel>> BY ONLY <2>1, <2>3, CancelSent
  <2> QED BY <2>2, <2>3
<1>5. sender.at = "finish" => ~HasOffer(forth) /\ receiver.at \in {"ready", "ok", "failed"} /\ AllSent
      BY <1>1 DEF ForthOK, Offered, SenderOK
<1>6. TransferTypes'
  <2>1. sender' \in [at : SenderPlaces, file : 0..Len(Sizes) + 1, position : Nat, fresh : BOOLEAN, asks : 0..MaxAsks]
    <3>1. {"ok", "failed"} \subseteq SenderPlaces BY DEF SenderPlaces, Ended
    <3> QED BY <3>1, <1>1 DEF TransferTypes
  <2> QED BY <2>1, <1>1, <1>4 DEF TransferTypes
<1>7. ReceivedOK' BY <1>1 DEF ReceivedOK
<1>8. SenderOK' BY <1>2, <1>3, <1>5 DEF SenderOK, Sending
<1>9. ReceiverOK'
      BY <1>1, <1>2, <1>3, <1>5 DEF ReceiverOK, Filling, Offered, NothingBack, UpTo, Here, Sending
<1>10. LineOK' BY <1>1, <1>2, <1>4, <1>5 DEF LineOK, Filling, Streaming, Here
<1>11. ForthOK' BY <1>1, <1>2, <1>3, <1>4, <1>5 DEF ForthOK, Offered, NothingBack, UpTo
<1>12. BackOK' BY <1>2 DEF BackOK, Ended
<1> QED BY <1>6, <1>7, <1>8, <1>9, <1>10, <1>11, <1>12 DEF TransferInv

LEMMA LineSpoiled ==
  ASSUME TransferInv, UNCHANGED <<sender, receiver, received, back>>, NEW k \in DOMAIN forth, NEW e,
         Quiet(e) \/ (Spoilt(e) /\ forth[k].t \in {"data", "info"}), forth' = [forth EXCEPT ![k] = e]
  PROVE  TransferInv'
<1>1. TransferTypes /\ ReceivedOK /\ SenderOK /\ ReceiverOK /\ LineOK /\ ForthOK /\ BackOK BY InvParts
<1>2. /\ IsLine(forth') /\ Len(forth') = Len(forth)
      /\ (HasOffer(forth') => HasOffer(forth)) /\ (HasA(forth', "ZFIN") => HasA(forth, "ZFIN"))
      /\ \A f : OfferLine(forth, f) => OfferLine(forth', f)
      /\ LastOffer(forth) => LastOffer(forth')
      /\ \A f : FileLine(forth, f) => FileLine(forth', f)
      /\ \A p : EndsAt(forth, p) => EndsAt(forth', p)
      /\ \A f, p : StartsAt(forth, f, p) => StartsAt(forth', f, p)
  <2>1. IsLine(forth) BY InvParts
  <2> QED BY <2>1, Spoiled
<1>3. forth' = << >> <=> forth = << >> BY <1>2, NoneInIt, InvParts
<1>4. TransferTypes' BY <1>1, <1>2 DEF TransferTypes
<1>5. ReceivedOK' BY <1>1 DEF ReceivedOK
<1>6. SenderOK' BY <1>1 DEF SenderOK, UpTo, AllSent
<1>7. ReceiverOK' BY <1>1, <1>3 DEF ReceiverOK, Offered, NothingBack, UpTo, AllSent, Here
<1>8. LineOK' BY <1>1, <1>2, <1>3 DEF LineOK, Streaming, Here
<1>9. ForthOK' BY <1>1, <1>2 DEF ForthOK, Offered, NothingBack, UpTo, AllSent
<1>10. BackOK' BY <1>1, <1>2 DEF BackOK, UpTo
<1> QED BY <1>4, <1>5, <1>6, <1>7, <1>8, <1>9, <1>10 DEF TransferInv

LEMMA BackLoses ==
  ASSUME TransferInv, UNCHANGED <<sender, receiver, received, forth>>, NEW k \in DOMAIN back, back' = RemoveAt(back, k)
  PROVE  TransferInv'
<1>1. TransferTypes /\ ReceivedOK /\ SenderOK /\ ReceiverOK /\ LineOK /\ ForthOK /\ BackOK BY InvParts
<1>2. /\ IsLine(back') /\ \A t : HasA(back', t) => HasA(back, t)
      /\ \A t, u : Precedes(back', t, u) => Precedes(back, t, u)
      /\ \A f : Positions(back, f) => Positions(back', f)
  <2>1. IsLine(back) BY InvParts
  <2> QED BY <2>1, HasRemoved, RemoveLine
<1>4. TransferTypes' BY <1>1, <1>2 DEF TransferTypes
<1>5. ReceivedOK' BY <1>1 DEF ReceivedOK
<1>6. SenderOK' BY <1>1 DEF SenderOK, UpTo, AllSent
<1>7. ReceiverOK' BY <1>1, <1>2 DEF ReceiverOK, Offered, NothingBack, UpTo, AllSent, Here
<1>8. LineOK' BY <1>1, <1>2 DEF LineOK, Streaming, Here
<1>9. ForthOK' BY <1>1, <1>2 DEF ForthOK, Offered, NothingBack, UpTo, AllSent
<1>10. BackOK' BY <1>1, <1>2 DEF BackOK, UpTo
<1> QED BY <1>4, <1>5, <1>6, <1>7, <1>8, <1>9, <1>10 DEF TransferInv

LEMMA SenderGivesUpKeeps ==
  ASSUME TransferInv, sender.at \notin Ended, SenderGivesUp, UNCHANGED <<receiver, received, forth, back>>
  PROVE  TransferInv'
<1>1. CASE sender.at = "finish" BY <1>1, SenderStops DEF SenderGivesUp
<1>2. CASE sender.at # "finish" BY <1>2, SenderStops DEF SenderGivesUp
<1> QED BY <1>1, <1>2

LEMMA ReceiverGivesUpKeeps ==
  ASSUME TransferInv, ReceiverGivesUp, UNCHANGED <<sender, received, forth>> PROVE TransferInv'
<1>1. receiver \in Receivers /\ receiver.at # "offered again" BY ReceiverIs, InvParts DEF ReceiverOK
<1>2. CASE receiver.at = "offer"
  <2>1. back' = back \o <<Header("ZNAK", 0)>> /\ receiver' = [receiver EXCEPT !.at = "ready", !.right = TRUE]
        BY <1>2 DEF ReceiverGivesUp, Then, Replies
  <2>2. receiver' \in Receivers /\ receiver'.at = "ready" BY <1>1, <2>1 DEF Receivers, ReceiverPlaces
  <2>3. Header("ZNAK", 0).t = "ZNAK" BY DEF Header
  <2>4. Says("ZNAK") BY <2>1, <2>3 DEF Says
  <2> QED BY <1>2, <2>2, <2>4, ReceiverRests
<1>3. CASE receiver.at # "offer"
  <2>1. UNCHANGED back /\ receiver' = [receiver EXCEPT !.at = "failed", !.right = TRUE]
        BY <1>1, <1>3 DEF ReceiverGivesUp, Then
  <2>2. receiver' \in Receivers /\ receiver'.at = "failed" BY <1>1, <2>1 DEF Receivers, ReceiverPlaces, Ended
  <2> QED BY <2>1, <2>2, ReceiverRests
<1> QED BY <1>2, <1>3

LEMMA CancelledKeeps == ASSUME TransferInv, Cancelled PROVE TransferInv'
<1>1. CASE /\ sender.at \notin Ended /\ sender' = [sender EXCEPT !.at = "failed"]
           /\ forth' = Append(forth, Cancel) /\ UNCHANGED <<receiver, received, back>>
  <2>1. forth' = forth \o <<Cancel>> BY <1>1, InvParts, AppendLine
  <2> QED BY <1>1, <2>1, SenderStops
<1>2. CASE /\ receiver.at \notin Ended /\ receiver' = [receiver EXCEPT !.at = "failed"]
           /\ back' = Append(back, Cancel) /\ UNCHANGED <<sender, received, forth>>
  <2>1. back' = back \o <<Cancel>> BY <1>2, InvParts, AppendLine
  <2>2. Cancel.t = "five ZDLEs" BY DEF Cancel
  <2>3. Says("five ZDLEs") BY <2>1, <2>2 DEF Says
  <2>4. receiver' \in Receivers /\ receiver'.at = "failed" BY <1>2, ReceiverIs DEF Receivers, ReceiverPlaces, Ended
  <2> QED BY <1>2, <2>3, <2>4, ReceiverRests
<1> QED BY <1>1, <1>2 DEF Cancelled

LEMMA FaultsKeep == ASSUME TransferInv, Faults PROVE TransferInv'
<1> USE DEF Subpacket
<1>1. CASE GarblesData
  <2>1. PICK n \in DOMAIN forth : /\ forth[n].t = "data"
           /\ forth' = [forth EXCEPT ![n] = Subpacket("bad data", Garble(forth[n].blocks), forth[n].last)]
        BY <1>1 DEF GarblesData
  <2>2. Spoilt(Subpacket("bad data", Garble(forth[n].blocks), forth[n].last)) BY DEF Spoilt
  <2> QED BY <1>1, <2>1, <2>2, LineSpoiled DEF GarblesData
<1>2. CASE RunsOn
  <2>1. PICK n \in DOMAIN forth : /\ forth[n].t = "data"
           /\ forth' = [forth EXCEPT ![n] = Subpacket("runs on", Garble(forth[n].blocks), forth[n].last)]
        BY <1>2 DEF RunsOn
  <2>2. Spoilt(Subpacket("runs on", Garble(forth[n].blocks), forth[n].last)) BY DEF Spoilt
  <2> QED BY <1>2, <2>1, <2>2, LineSpoiled DEF RunsOn
<1>3. CASE GarblesInfo
  <2>1. PICK n \in DOMAIN forth, t \in {"bad data", "runs on"} :
           forth[n].t = "info" /\ forth' = [forth EXCEPT ![n] = Subpacket(t, << >>, TRUE)]
        BY <1>3 DEF GarblesInfo
  <2>2. Spoilt(Subpacket(t, << >>, TRUE)) BY <2>1 DEF Spoilt
  <2> QED BY <1>3, <2>1, <2>2, LineSpoiled DEF GarblesInfo
<1>4. CASE GarblesHeader
  <2>1. CASE UNCHANGED back /\ \E n \in DOMAIN forth, e \in {Garbled, Hidden} : forth' = [forth EXCEPT ![n] = e]
    <3>1. PICK n \in DOMAIN forth, e \in {Garbled, Hidden} : forth' = [forth EXCEPT ![n] = e] BY <2>1
    <3>2. e.t \in {"bad header", "noise"}
      <4>1. Garbled.t = "bad header" /\ Hidden.t = "noise" BY DEF Garbled, Hidden
      <4> QED BY <3>1, <4>1
    <3>3. Quiet(e) BY <3>2 DEF Quiet
    <3> QED BY <1>4, <2>1, <3>1, <3>3, LineSpoiled DEF GarblesHeader
  <2>2. CASE UNCHANGED forth /\ \E n \in DOMAIN back : back' = RemoveAt(back, n)
        BY <1>4, <2>2, BackLoses DEF GarblesHeader
  <2> QED BY <1>4, <2>1, <2>2 DEF GarblesHeader
<1>5. CASE TooEarly
  <2>1. CASE /\ sender.at \in {"start", "offered", "eof", "finish"} /\ SenderGivesUp
             /\ UNCHANGED <<receiver, received, forth, back>>
        BY <2>1, SenderGivesUpKeeps DEF Ended
  <2>2. CASE ReceiverGivesUp /\ UNCHANGED <<sender, received, forth>> BY <2>2, ReceiverGivesUpKeeps
  <2> QED BY <1>5, <2>1, <2>2 DEF TooEarly
<1>6. CASE Cancelled BY <1>6, CancelledKeeps
<1> QED BY <1>1, <1>2, <1>3, <1>4, <1>5, <1>6 DEF Faults

LEMMA NextKeeps == ASSUME TransferInv, [ZmodemNext]_zmodemVars PROVE TransferInv'
<1>1. CASE SenderSteps
      BY <1>1, SenderOffersKeeps, SenderSendsBlockKeeps, SenderSeesNothingKeeps, SenderSeesHeaderKeeps,
         SenderAwaitsKeeps, SenderFinishesKeeps, SenderAsksKeeps DEF SenderSteps
<1>2. CASE ReceiverSteps
      BY <1>2, ReceiverStartsKeeps, ReceiverSkipsKeeps, ReceiverSeesBadHeaderKeeps, ReceiverBetweenFilesKeeps,
         ReceiverWithinFileKeeps, ReceiverTakesInKeeps, ReceiverReadsSubpacketKeeps, ReceiverAsksKeeps,
         TerminalShowsItKeeps DEF ReceiverSteps
<1>3. CASE SenderTimesOut BY <1>3, SenderGivesUpKeeps DEF SenderTimesOut, ReceiverOnly
<1>4. CASE ReceiverTimesOut BY <1>4, ReceiverGivesUpKeeps DEF ReceiverTimesOut, SenderOnly
<1>5. CASE Faults BY <1>5, FaultsKeep
<1>6. CASE UNCHANGED zmodemVars
  <2>1. UNCHANGED <<sender, receiver, received, forth, back>> BY <1>6 DEF zmodemVars
  <2>2. TransferTypes /\ ReceivedOK /\ SenderOK /\ ReceiverOK /\ LineOK /\ ForthOK /\ BackOK BY InvParts
  <2>3. TransferTypes' BY <2>1, <2>2 DEF TransferTypes
  <2>4. ReceivedOK' BY <2>1, <2>2 DEF ReceivedOK
  <2>5. SenderOK' BY <2>1, <2>2 DEF SenderOK, UpTo, AllSent
  <2>6. ReceiverOK' BY <2>1, <2>2 DEF ReceiverOK, Offered, NothingBack, UpTo, AllSent, Here
  <2>7. LineOK' BY <2>1, <2>2 DEF LineOK, Streaming, Here
  <2>8. ForthOK' BY <2>1, <2>2 DEF ForthOK, Offered, NothingBack, UpTo, AllSent
  <2>9. BackOK' BY <2>1, <2>2 DEF BackOK, UpTo
  <2> QED BY <2>3, <2>4, <2>5, <2>6, <2>7, <2>8, <2>9 DEF TransferInv
<1> QED BY <1>1, <1>2, <1>3, <1>4, <1>5, <1>6 DEF ZmodemNext

(* TransferInv holds whatever goes wrong on the line and whenever an end    *)
(* gives up.                                                                *)
THEOREM TransferInvAlways == ZmodemSpec => []TransferInv
<1>1. ZmodemInit => TransferInv BY InitKeeps
<1>2. TransferInv /\ [ZmodemNext]_zmodemVars => TransferInv' BY NextKeeps
<1> QED BY <1>1, <1>2, PTL DEF ZmodemSpec

-----------------------------------------------------------------------------
(* What FileTransfer promises.                                             *)

(* The files that FileTransfer is to take.                                  *)
Batch == [n \in DOMAIN Taken |-> Whole(Taken[n])]

LEMMA AllArrived ==
  ASSUME NEW r, IsLine(r), Len(r) = Len(Taken), \A n \in DOMAIN r : r[n] = Whole(Taken[n])
  PROVE  r = Batch
<1>1. DOMAIN r = DOMAIN Taken BY LineIs, TakenLists
<1>2. r = [n \in DOMAIN r |-> r[n]]
  <2>1. PICK S : r \in Seq(S) BY DEF IsLine
  <2>2. r \in [1..Len(r) -> S] BY <2>1
  <2> QED BY <2>2
<1> QED BY <1>1, <1>2 DEF Batch

LEMMA BatchLength == Len(Batch) = Len(Taken) /\ \A n \in 1..Len(Taken) : Batch[n] = Whole(Taken[n])
<1>1. Len(Taken) \in Nat /\ DOMAIN Taken = 1..Len(Taken) BY TakenLists
<1> DEFINE S == {Whole(f) : f \in Files}
           l == Len(Taken)
<1>2. \A n \in 1..l : Whole(Taken[n]) \in S BY <1>1, TakenLists DEF Offers
<1>3. Batch = [n \in 1..l |-> Whole(Taken[n])] BY <1>1 DEF Batch
<1>4. l \in Nat BY <1>1
<1> HIDE DEF l, S
<1>5. Batch \in [1..l -> S] BY <1>2, <1>3
<1>6. Batch \in Seq(S) BY <1>4, <1>5, SeqDef
<1>7. Len(Batch) = l BY <1>4, <1>5, <1>6, LenProperties
<1> QED BY <1>3, <1>7 DEF l

LEMMA SenderMoves ==
  ASSUME TransferInv', UNCHANGED <<receiver, received>>, sender.at \notin Ended \/ UNCHANGED sender
  PROVE  [Transfer!Next]_(Transfer!vars)
<1>1. CASE Outcome(sender'.at) = Outcome(sender.at) BY <1>1 DEF Transfer!vars
<1>2. CASE Outcome(sender'.at) # Outcome(sender.at)
  <2>1. Outcome(sender.at) = "going" /\ sender'.at \in Ended /\ Outcome(sender'.at) = sender'.at
        BY <1>2 DEF Outcome
  <2>2. sender'.at = "ok" => received = Batch
    <3> SUFFICES ASSUME sender'.at = "ok" PROVE received = Batch OBVIOUS
    <3>1. Len(received) = Len(Taken) BY DEF TransferInv, SenderOK, AllSent
    <3>2. IsLine(received) /\ \A n \in DOMAIN received : received[n] = Whole(Taken[n])
          BY DEF TransferInv, TransferTypes, ReceivedOK
    <3> QED BY <3>1, <3>2, AllArrived
  <2> QED BY <2>1, <2>2 DEF Transfer!Next, Transfer!SenderEnds, Ended, Batch
<1> QED BY <1>1, <1>2

LEMMA ReceiverMoves ==
  ASSUME TransferInv', UNCHANGED <<sender, received>>, receiver.at \notin Ended \/ UNCHANGED receiver
  PROVE  [Transfer!Next]_(Transfer!vars)
<1>1. CASE Outcome(receiver'.at) = Outcome(receiver.at) BY <1>1 DEF Transfer!vars
<1>2. CASE Outcome(receiver'.at) # Outcome(receiver.at)
  <2>1. Outcome(receiver.at) = "going" /\ receiver'.at \in Ended /\ Outcome(receiver'.at) = receiver'.at
        BY <1>2 DEF Outcome
  <2>2. receiver'.at = "ok" => received = Batch
    <3> SUFFICES ASSUME receiver'.at = "ok" PROVE received = Batch OBVIOUS
    <3>1. Len(received) = Len(Taken) BY DEF TransferInv, ReceiverOK, AllSent
    <3>2. IsLine(received) /\ \A n \in DOMAIN received : received[n] = Whole(Taken[n])
          BY DEF TransferInv, TransferTypes, ReceivedOK
    <3> QED BY <3>1, <3>2, AllArrived
  <2> QED BY <2>1, <2>2 DEF Transfer!Next, Transfer!ReceiverEnds, Ended, Batch
<1> QED BY <1>1, <1>2

LEMMA FileArrives ==
  ASSUME TransferInv, TransferInv', NEW r, received' = Append(received, r), UNCHANGED sender,
         receiver.at \notin Ended, receiver'.at \notin Ended
  PROVE  Transfer!Arrive
<1> DEFINE n == Len(received) + 1
<1>1. IsLine(received) /\ Len(received) \in Nat BY InvParts, LineIs
<1>2. received' = received \o <<r>> BY <1>1, AppendLine
<1>3. Len(received') = n /\ received'[n] = r /\ DOMAIN received' = 1..n
  <2> DEFINE w == <<r>>
             l == Len(received)
  <2>1. IsLine(w) /\ Len(w) = 1 /\ w[1] = r BY OneLine
  <2>5. l \in Nat BY <1>1
  <2> HIDE DEF w
  <2>2. /\ IsLine(received \o w) /\ Len(received \o w) = l + 1
        /\ \A i \in 1..l + 1 : (received \o w)[i] = IF i <= l THEN received[i] ELSE w[i - l]
        BY <1>1, <2>1, ConcatLine
  <2>3. received' = received \o w BY <1>2 DEF w
  <2> HIDE DEF l
  <2>4. l + 1 \in 1..l + 1 /\ ~(l + 1 <= l) /\ (l + 1) - l = 1 BY <2>5
  <2>6. (received \o w)[l + 1] = r BY <2>1, <2>2, <2>4
  <2> QED BY <2>2, <2>3, <2>6, LineIs DEF l
<1>4. n <= Len(Taken) /\ r = Whole(Taken[n]) /\ n \in 1..Len(Taken)
  <2>1. Len(received') <= Len(Taken) /\ \A k \in DOMAIN received' : received'[k] = Whole(Taken[k])
        BY DEF TransferInv, ReceivedOK
  <2>2. n \in Nat /\ n >= 1 /\ Len(Taken) \in Nat BY <1>1, TakenLists
  <2> HIDE DEF n
  <2> QED BY <1>3, <2>1, <2>2
<1>5. Len(received) < Len(Batch) /\ r = Batch[Len(received) + 1]
  <2>1. Len(Taken) \in Nat BY TakenLists
  <2> QED BY <1>1, <1>4, <2>1, BatchLength
<1>6. Outcome(receiver.at) = "going" /\ Outcome(receiver'.at) = "going" BY DEF Outcome
<1> QED BY <1>5, <1>6 DEF Transfer!Arrive, Batch

LEMMA ReceiverStepIs ==
  ASSUME TransferInv, ReceiverSteps
  PROVE  /\ UNCHANGED sender
         /\ \/ UNCHANGED received /\ (receiver.at \notin Ended \/ UNCHANGED receiver)
            \/ /\ \E r : received' = Append(received, r)
               /\ receiver.at \notin Ended /\ receiver'.at \notin Ended
<1>1. CASE ReceiverStarts BY <1>1 DEF ReceiverStarts, SenderOnly, Ended
<1>2. CASE ReceiverSkips BY <1>2 DEF ReceiverSkips, SenderOnly
<1>3. CASE ReceiverSeesBadHeader BY <1>3 DEF ReceiverSeesBadHeader, SenderOnly
<1>4. CASE ReceiverBetweenFiles BY <1>4 DEF ReceiverBetweenFiles, SenderOnly, Ended
<1>5. CASE ReceiverWithinFile
  <2>1. receiver.at = "file" /\ UNCHANGED sender BY <1>5 DEF ReceiverWithinFile, SenderOnly
  <2>2. UNCHANGED received \/ (receiver' = BetweenFiles /\ \E r : received' = Append(received, r))
        BY <1>5 DEF ReceiverWithinFile
  <2>3. BetweenFiles.at \notin Ended BY DEF BetweenFiles, Ended
  <2> QED BY <2>1, <2>2, <2>3 DEF Ended
<1>6. CASE ReceiverTakesIn BY <1>6 DEF ReceiverTakesIn, SenderOnly, Subpackets, Ended
<1>7. CASE ReceiverReadsSubpacket BY <1>7 DEF ReceiverReadsSubpacket, SenderOnly, Subpackets, Ended
<1>8. CASE ReceiverAsks BY <1>8 DEF ReceiverAsks, SenderOnly, Ended
<1>9. CASE TerminalShowsIt BY <1>9 DEF TerminalShowsIt, SenderOnly
<1> QED BY <1>1, <1>2, <1>3, <1>4, <1>5, <1>6, <1>7, <1>8, <1>9 DEF ReceiverSteps

(* Every step is one of FileTransfer or leaves its variables alone.         *)
LEMMA StepMaps == ASSUME TransferInv, TransferInv', [ZmodemNext]_zmodemVars PROVE [Transfer!Next]_(Transfer!vars)
<1>1. CASE SenderSteps
  <2>1. sender.at \notin Ended /\ UNCHANGED <<receiver, received>>
    <3> USE DEF ReceiverOnly, Ended
    <3>1. CASE SenderOffers BY <3>1 DEF SenderOffers
    <3>2. CASE SenderSendsBlock BY <3>2 DEF SenderSendsBlock
    <3>3. CASE SenderSeesNothing BY <3>3 DEF SenderSeesNothing
    <3>4. CASE SenderSeesHeader BY <3>4 DEF SenderSeesHeader
    <3>5. CASE SenderAwaits BY <3>5 DEF SenderAwaits
    <3>6. CASE SenderFinishes BY <3>6 DEF SenderFinishes
    <3>7. CASE SenderAsks BY <3>7 DEF SenderAsks, MayAskAgain
    <3> QED BY <1>1, <3>1, <3>2, <3>3, <3>4, <3>5, <3>6, <3>7 DEF SenderSteps
  <2> QED BY <2>1, SenderMoves
<1>2. CASE ReceiverSteps
  <2>1. CASE UNCHANGED received /\ (receiver.at \notin Ended \/ UNCHANGED receiver)
        BY <1>2, <2>1, ReceiverStepIs, ReceiverMoves
  <2>2. CASE /\ \E r : received' = Append(received, r)
             /\ receiver.at \notin Ended /\ receiver'.at \notin Ended
    <3>1. UNCHANGED sender BY <1>2, ReceiverStepIs
    <3>2. Transfer!Arrive BY <2>2, <3>1, FileArrives
    <3> QED BY <3>2 DEF Transfer!Next
  <2> QED BY <1>2, <2>1, <2>2, ReceiverStepIs
<1>3. CASE SenderTimesOut BY <1>3, SenderMoves DEF SenderTimesOut, ReceiverOnly
<1>4. CASE ReceiverTimesOut BY <1>4, ReceiverMoves DEF ReceiverTimesOut, SenderOnly
<1>5. CASE GarblesData \/ RunsOn \/ GarblesInfo \/ GarblesHeader \/ UNCHANGED zmodemVars
  <2>1. UNCHANGED <<sender, receiver, received>>
        BY <1>5 DEF GarblesData, RunsOn, GarblesInfo, GarblesHeader, zmodemVars
  <2> QED BY <2>1, SenderMoves
<1>6. CASE TooEarly
  <2>1. CASE sender.at \in {"start", "offered", "eof", "finish"} /\ UNCHANGED <<receiver, received>>
        BY <2>1, SenderMoves DEF Ended
  <2>2. CASE receiver.at \notin Ended /\ UNCHANGED <<sender, received>> BY <2>2, ReceiverMoves
  <2> QED BY <1>6, <2>1, <2>2 DEF TooEarly
<1>7. CASE Cancelled
  <2>1. CASE sender.at \notin Ended /\ UNCHANGED <<receiver, received>> BY <2>1, SenderMoves
  <2>2. CASE receiver.at \notin Ended /\ UNCHANGED <<sender, received>> BY <2>2, ReceiverMoves
  <2> QED BY <1>7, <2>1, <2>2 DEF Cancelled
<1> QED BY <1>1, <1>2, <1>3, <1>4, <1>5, <1>6, <1>7 DEF ZmodemNext, Faults

LEMMA StartMaps == ZmodemInit => Transfer!Init
  BY DEF ZmodemInit, Transfer!Init, Outcome, Ended

(* What TransfersFiles says but for the ends coming to an end: files arrive *)
(* whole, in order and once, and an end that says ok has all of them across *)
(* (Run, ReceiveFile, Finish).                                              *)
THEOREM ZmodemTransfers == ZmodemSpec => Transfer!Init /\ [][Transfer!Next]_(Transfer!vars)
<1>1. ZmodemInit => Transfer!Init BY StartMaps
<1>2. TransferInv /\ TransferInv' /\ [ZmodemNext]_zmodemVars => [Transfer!Next]_(Transfer!vars) BY StepMaps
<1>3. ZmodemSpec => []TransferInv BY TransferInvAlways
<1> QED BY <1>1, <1>2, <1>3, PTL DEF ZmodemSpec

-----------------------------------------------------------------------------
(* TransferTypes, and how much is on the line.                                     *)

(* What the line holds: one cancel more than what the sender sends.         *)
Room == Len(forth) <= MaxLine + (IF sender.at \in Ended THEN 1 ELSE 0)

LEMMA Added ==
  ASSUME TransferInv, NEW w, IsLine(w), Sends(w) PROVE Room'
<1>1. Len(forth \o w) = Len(forth) + Len(w) /\ Len(forth) \in Nat /\ Len(w) \in Nat
      BY InvParts, ConcatLine, LineIs
<1>2. Len(forth) + Len(w) <= MaxLine /\ forth' = forth \o w BY DEF Sends
<1>3. Len(forth') <= MaxLine
  <2> DEFINE l == Len(forth')
             m == Len(forth) + Len(w)
  <2>1. l = m /\ m <= MaxLine BY <1>1, <1>2
  <2> HIDE DEF l, m
  <2> QED BY <2>1 DEF l
<1>4. MaxLine \in Nat /\ Len(forth') \in Nat BY <1>1, <1>2, ZmodemAssumption
<1> QED BY <1>3, <1>4 DEF Room

LEMMA NoneAdded ==
  ASSUME TransferInv, Room, sender.at \in Ended => sender'.at \in Ended,
         \/ forth' = forth \/ (forth # << >> /\ forth' = Tail(forth)) \/ forth' = << >>
         \/ \E n \in DOMAIN forth : \E e : forth' = [forth EXCEPT ![n] = e]
         \/ forth' = forth \o <<Cancel>> /\ sender.at \notin Ended /\ sender'.at \in Ended
  PROVE  Room'
<1> DEFINE l == Len(forth)
           k == Len(forth')
<1>1. l \in Nat /\ IsLine(forth) BY InvParts, LineIs
<1>2. k \in Nat /\ (k <= l \/ (k = l + 1 /\ sender.at \notin Ended /\ sender'.at \in Ended))
  <2>1. CASE forth' = forth BY <1>1, <2>1
  <2>2. CASE forth # << >> /\ forth' = Tail(forth)
    <3>1. Len(Tail(forth)) = l - 1 /\ l >= 1 BY <1>1, <2>2, TailLine
    <3>2. k = l - 1 BY <2>2, <3>1, Zenon
    <3> HIDE DEF k, l
    <3> QED BY <1>1, <3>1, <3>2
  <2>3. CASE forth' = << >> BY <1>1, <2>3, EmptyLine
  <2>4. CASE \E n \in DOMAIN forth : \E e : forth' = [forth EXCEPT ![n] = e]
    <3>0. PICK n \in DOMAIN forth : \E e : forth' = [forth EXCEPT ![n] = e] BY <2>4
    <3>1. PICK e : forth' = [forth EXCEPT ![n] = e] BY <3>0
    <3>2. Len([forth EXCEPT ![n] = e]) = l BY <1>1, ExceptLine
    <3>3. k = l BY <3>1, <3>2, Zenon
    <3> HIDE DEF k, l
    <3> QED BY <1>1, <3>3
  <2>5. CASE forth' = forth \o <<Cancel>> /\ sender.at \notin Ended /\ sender'.at \in Ended
    <3> DEFINE w == <<Cancel>>
    <3>1. IsLine(w) /\ Len(w) = 1 BY OneLine
    <3> HIDE DEF w
    <3>2. Len(forth \o w) = l + 1 BY <1>1, <3>1, ConcatLine
    <3>3. k = l + 1 BY <2>5, <3>2, Zenon DEF w
    <3> QED BY <1>1, <2>5, <3>3
  <2> QED BY <2>1, <2>2, <2>3, <2>4, <2>5
<1>3. MaxLine \in Nat BY ZmodemAssumption
<1> HIDE DEF l, k
<1>4. l <= MaxLine + (IF sender.at \in Ended THEN 1 ELSE 0) BY DEF Room, l
<1>5. k <= MaxLine + (IF sender'.at \in Ended THEN 1 ELSE 0) BY <1>1, <1>2, <1>3, <1>4
<1> QED BY <1>5 DEF Room, k

LEMMA RoomKept == ASSUME TransferInv, Room, [ZmodemNext]_zmodemVars PROVE Room'
<1>1. CASE SenderSteps
  <2>1. CASE SenderOffers
    <3>1. IsLine(<<Header("ZFILE", 0), Subpacket("info", <<sender.file>>, TRUE)>>) BY TwoLine
    <3> QED BY <2>1, <3>1, Added DEF SenderOffers
  <2>2. CASE SenderSendsBlock
    <3>1. sender.at = "data" BY <2>2 DEF SenderSendsBlock
    <3>2. sender.file \in Files /\ sender.position \in Nat /\ sender.position <= Sizes[sender.file]
          /\ sender.fresh \in BOOLEAN
          BY <3>1, InvParts DEF SenderOK, Sending, Offers, TransferTypes
    <3> DEFINE size == Sizes[sender.file]
               count == IF sender.position = size THEN 0 ELSE 1
               last == sender.position + count >= size
               w == (IF sender.fresh THEN <<Header("ZDATA", sender.position)>> ELSE << >>)
                      \o <<Subpacket("data", [k \in 1..count |-> <<sender.file, sender.position + 1>>], last)>>
                      \o (IF last THEN <<Header("ZEOF", size)>> ELSE << >>)
    <3>3. IsLine(w) BY <3>2, BlockSent
    <3>4. Sends(w) BY <2>2 DEF SenderSendsBlock
    <3> HIDE DEF w
    <3> QED BY <3>3, <3>4, Added
  <2>3. CASE SenderFinishes
    <3>1. IsLine(<<Header("ZFIN", 0)>>) BY OneLine
    <3> QED BY <2>3, <3>1, Added DEF SenderFinishes
  <2>4. CASE SenderAsks
    <3>1. IsLine(<<Header("ZRQINIT", 0)>>) BY OneLine
    <3> QED BY <2>4, <3>1, Added DEF SenderAsks
  <2>5. CASE SenderSeesNothing \/ SenderSeesHeader \/ SenderAwaits
    <3>1. forth' = forth /\ sender.at \notin Ended
          BY <2>5 DEF SenderSeesNothing, SenderSeesHeader, SenderAwaits, Ended
    <3> QED BY <3>1, NoneAdded
  <2> QED BY <1>1, <2>1, <2>2, <2>3, <2>4, <2>5 DEF SenderSteps
<1>2. CASE ReceiverSteps
  <2>1. UNCHANGED sender BY <1>2, ReceiverStepIs
  <2>2. forth' = forth \/ (forth # << >> /\ forth' = Tail(forth)) \/ forth' = << >>
        BY <1>2 DEF ReceiverSteps, ReceiverStarts, ReceiverSkips, ReceiverSeesBadHeader, ReceiverBetweenFiles,
           ReceiverWithinFile, ReceiverTakesIn, ReceiverReadsSubpacket, ReceiverAsks, TerminalShowsIt
  <2> QED BY <2>1, <2>2, NoneAdded
<1>3. CASE SenderTimesOut BY <1>3, NoneAdded DEF SenderTimesOut
<1>4. CASE ReceiverTimesOut BY <1>4, NoneAdded DEF ReceiverTimesOut, SenderOnly
<1>5. CASE GarblesData \/ RunsOn \/ GarblesInfo \/ GarblesHeader
  <2>1. forth' = forth \/ \E n \in DOMAIN forth : \E e : forth' = [forth EXCEPT ![n] = e]
        BY <1>5 DEF GarblesData, RunsOn, GarblesInfo, GarblesHeader
  <2>2. UNCHANGED sender BY <1>5 DEF GarblesData, RunsOn, GarblesInfo, GarblesHeader
  <2> QED BY <2>1, <2>2, NoneAdded
<1>6. CASE TooEarly BY <1>6, NoneAdded DEF TooEarly, Ended
<1>7. CASE Cancelled
  <2>1. CASE /\ sender.at \notin Ended /\ sender' = [sender EXCEPT !.at = "failed"]
             /\ forth' = Append(forth, Cancel)
    <3>1. forth' = forth \o <<Cancel>> BY <2>1, InvParts, AppendLine
    <3>2. sender'.at \in Ended BY <2>1, InvParts DEF TransferTypes, Ended
    <3> QED BY <2>1, <3>1, <3>2, NoneAdded
  <2>2. CASE UNCHANGED <<sender, forth>> BY <2>2, NoneAdded
  <2> QED BY <1>7, <2>1, <2>2 DEF Cancelled
<1>8. CASE UNCHANGED zmodemVars BY <1>8, NoneAdded DEF zmodemVars
<1> QED BY <1>1, <1>2, <1>3, <1>4, <1>5, <1>6, <1>7, <1>8 DEF ZmodemNext, Faults

(* ZmodemTypeOK: both ends keep their types and the line its bound.         *)
THEOREM ZmodemTyped == ZmodemSpec => []ZmodemTypeOK
<1>1. ZmodemInit => Room
  <2> SUFFICES ASSUME ZmodemInit PROVE Room OBVIOUS
  <2> DEFINE h == Header("ZRQINIT", 0)
  <2>1. forth = <<h>> /\ sender.at = "start" BY DEF ZmodemInit
  <2> HIDE DEF h
  <2>2. Len(forth) = 1 BY <2>1, OneLine
  <2> QED BY <2>1, <2>2, ZmodemAssumption DEF Room, Ended
<1>2. TransferInv /\ Room /\ [ZmodemNext]_zmodemVars => Room' BY RoomKept
<1>3. TransferInv /\ Room => ZmodemTypeOK
  <2> SUFFICES ASSUME TransferInv, Room PROVE ZmodemTypeOK OBVIOUS
  <2>1. TransferTypes /\ ReceiverOK BY InvParts
  <2>2. sender.at \in SenderPlaces /\ sender.file \in 0..Len(Sizes) + 1 /\ sender.asks \in 0..MaxAsks
        BY <2>1 DEF TransferTypes
  <2>3. receiver.at \in ReceiverPlaces /\ receiver.file \in Files \cup {0} /\ receiver.asks \in 0..MaxAsks
        BY <2>1 DEF TransferTypes
  <2>4. receiver.at \in {"file", "data", "offered again"} => receiver.file # 0
    <3> SUFFICES ASSUME receiver.at \in {"file", "data", "offered again"} PROVE receiver.file # 0 OBVIOUS
    <3>1. receiver.file = sender.file /\ sender.file \in Files BY <2>1 DEF ReceiverOK, Filling, Offers
    <3>2. 0 \notin Files
      <4> DEFINE n == Len(Sizes)
      <4>1. n \in Nat /\ Files = 1..n BY FilesAre
      <4> HIDE DEF n
      <4> QED BY ONLY <4>1
    <3> QED BY <3>1, <3>2
  <2>5. Len(forth) <= MaxLine + 1
    <3>1. Len(forth) \in Nat /\ MaxLine \in Nat BY InvParts, LineIs, ZmodemAssumption
    <3> QED BY <3>1 DEF Room
  <2> QED BY <2>2, <2>3, <2>4, <2>5 DEF ZmodemTypeOK, SenderPlaces, Sending, ReceiverPlaces
<1> QED BY <1>1, <1>2, <1>3, TransferInvAlways, PTL DEF ZmodemSpec
=============================================================================
