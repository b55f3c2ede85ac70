------------------------------ MODULE Uploads ------------------------------
(***************************************************************************)
(* An SSH user's /imports over SFTP (SftpSession) and scp (ScpTransfer):     *)
(* uploads are written to a hidden temporary file and moved into place when  *)
(* they are whole, within a limit on each and on all of them.  Beside them   *)
(* go the exec commands that import or discard an upload, the hourly clean   *)
(* of files a week old (RemoveOldSshUserFiles), a rename of the user          *)
(* (MoveSshUserFiles) and processes that die with an upload open.            *)
(*                                                                         *)
(* A file is its size, in pieces of one WRITE or chunk each, and whether it    *)
(* misses any its client sent.  /exports is read the same way and never       *)
(* written here.  Requests that change nothing (STAT, READDIR, REALPATH, SETSTAT, a  *)
(* refusal) are steps of no account and have no action.                     *)
(***************************************************************************)
EXTENDS Integers, FiniteSets

CONSTANTS
    Connections, ViewOnly,  \* connections of the user; those logged in view-only
    Names,                  \* names IsAllowedImportName takes
    Dirs, OldName, NewName, \* the folders of the user's names
    MaxUpload, MaxImports,  \* kSftpMaxUploadBytes, kSftpMaxImportsBytes
    Asks, LoginsAfterMove,  \* bounds: what a connection may ask for; and once the user is renamed
    MaxUploads, AtOnce,     \* bounds: temporary files; uploads at once
    MaxMoved,               \* bound: files there when the user is renamed
    Smallest, Longest       \* bounds: the sizes of the uploads clients try

VARIABLES
    user,       \* the user's name now
    imports,    \* the folders: the file each name is
    up,         \* the uploads: open ones, and those still in a temporary file
    conn,       \* the connections' processes
    told        \* what the last step has answered its client

vars == <<user, imports, up, conn, told>>

Uploads == 1..MaxUploads
Paths == Dirs \X Names

Nowhere == "nowhere"

ASSUME UploadsAssumption ==
    /\ ViewOnly \subseteq Connections /\ IsFiniteSet(Names)
    /\ Asks \in [Connections -> SUBSET {"sftp", "scp -t", "scp -f", "exec"}]
    /\ Dirs = {OldName, NewName} /\ OldName # NewName /\ Nowhere \notin Dirs
    /\ MaxUpload \in Nat /\ MaxImports \in Nat /\ MaxUploads \in Nat
    /\ AtOnce \in Nat \ {0} /\ MaxMoved \in Nat /\ Smallest \in Nat /\ Longest \in Nat /\ LoginsAfterMove \in BOOLEAN

NoFile == [size |-> 0, missed |-> FALSE, is |-> FALSE]
Unused == [stage |-> "unused", name |-> "", dir |-> Nowhere, temp |-> Nowhere, limit |-> 0,
           size |-> 0, failed |-> FALSE, missed |-> FALSE, by |-> "nobody"]
Idle == [runs |-> "nothing", dir |-> Nowhere, failed |-> FALSE, name |-> ""]

MayAsk(c, what) ==
    conn[c].runs = "nothing" /\ what \in Asks[c] /\ (LoginsAfterMove \/ user = OldName)

Init ==
    /\ user = OldName
    /\ imports = [p \in Paths |-> NoFile]
    /\ up = [u \in Uploads |-> Unused]
    /\ conn = [c \in Connections |-> Idle]
    /\ told = ""

-----------------------------------------------------------------------------
(* The folder.                                                              *)

Open(u) == up[u].stage = "open"
OpenBy(c) == {u \in Uploads : Open(u) /\ up[u].by = c}

Is(p) == imports[p].is
Temps(dir) == {u \in Uploads : up[u].temp = dir}
PiecesOf(dir, names) == UNION {{n} \X (1..imports[<<dir, n>>].size) : n \in names}
FilesSize(dir, names) == Cardinality(PiecesOf(dir, names))
TempsSize(dir) == Cardinality(UNION {{u} \X (1..up[u].size) : u \in Temps(dir)})

(* Hidden temporary files count, and the file an upload is about to replace    *)
(* does not.                                                                *)
SftpImportsBytesUsed(dir, except) ==
    FilesSize(dir, Names \ {except}) + TempsSize(dir)

Lower(x, y) == IF x < y THEN x ELSE y
EachToItself(used) == IF used >= MaxImports THEN 0 ELSE MaxUpload  \* mutant: more than is left
SftpUploadLimit(used) == IF used >= MaxImports THEN 0 ELSE Lower(MaxUpload, MaxImports - used)

(* The next state.  An upload that is over and on no disk is forgotten, and   *)
(* its number used again.                                                   *)
Answers(what, files, uploads, connections) ==
    /\ imports' = files /\ conn' = connections /\ told' = what
    /\ up' = [u \in Uploads |-> IF uploads[u].stage = "open" \/ uploads[u].temp # Nowhere
                                THEN uploads[u] ELSE Unused]
Becomes(files, uploads, connections) == Answers("", files, uploads, connections)

(* The temporary file goes by its path, which a rename of the user changes.   *)
Unlinked(rec) == [rec EXCEPT !.temp = IF @ = rec.dir THEN Nowhere ELSE @]
LeftOf(rec, stage) == [Unused EXCEPT !.stage = stage, !.dir = rec.dir, !.temp = rec.temp, !.size = rec.size]
LeavesTemp(rec) == LeftOf(rec, "closed")  \* mutant: the file is only closed
CloseFile(rec) == LeftOf(Unlinked(rec), "closed")

CreatesTemp(c, n, limit) ==
    \E u \in Uploads :
        /\ up[u] = Unused /\ \A other \in Uploads : up[other] = Unused => u <= other
        /\ Cardinality({other \in Uploads : Open(other)}) < AtOnce
        /\ Becomes(imports,
             [up EXCEPT ![u] = [Unused EXCEPT !.stage = "open", !.name = n, !.dir = conn[c].dir,
                                              !.temp = conn[c].dir, !.limit = limit, !.by = c]],
             conn)

(* ReplaceWithFile: the temporary file becomes `u`'s name's file, unless it    *)
(* is no longer where it was written.                                       *)
Replaces(u) == up[u].temp = up[u].dir
Target(u) == <<up[u].dir, up[u].name>>
FileOf(u) == [size |-> up[u].size, missed |-> up[u].missed, is |-> TRUE]
ReplaceWithFile(u) == [imports EXCEPT ![Target(u)] = FileOf(u)]

(* A piece stored, or not: the disk may be full.                              *)
Stored(rec) == [rec EXCEPT !.size = @ + 1]
LosesQuietly(rec) == [rec EXCEPT !.missed = TRUE]  \* mutant: a failed write is not kept
Lost(rec) == [rec EXCEPT !.missed = TRUE, !.failed = TRUE]

-----------------------------------------------------------------------------
(* SFTP.                                                                    *)

RunSftpSession(c) ==
    /\ MayAsk(c, "sftp")
    /\ Becomes(imports, up, [conn EXCEPT ![c] = [Idle EXCEPT !.runs = "sftp", !.dir = user]])
    /\ UNCHANGED user

AreaWritable(c) == c \notin ViewOnly

OpenForWriting(c, n) ==
    LET limit == SftpUploadLimit(SftpImportsBytesUsed(conn[c].dir, n)) IN
    /\ conn[c].runs = "sftp" /\ AreaWritable(c) /\ limit \in 1..MaxUpload
    /\ CreatesTemp(c, n, limit)
    /\ UNCHANGED user

(* WRITE at `at`: nothing after a failure; over the limit or ahead of the end  *)
(* fails the upload, and so does the disk.                                  *)
Fits(rec, at) == at < rec.limit /\ at <= rec.size
Written(rec, at) == IF rec.failed \/ ~Fits(rec, at) THEN {Lost(rec)} ELSE {Stored(rec), Lost(rec)}
Write(c, u) ==
    /\ conn[c].runs = "sftp" /\ u \in OpenBy(c)
    /\ \E at \in {up[u].size, up[u].size + 1} : \E rec \in Written(up[u], at) :
         Becomes(imports, [up EXCEPT ![u] = rec], conn)
    /\ UNCHANGED user

Moves(u) == ~up[u].failed /\ Replaces(u)
SaysSaved(u) == ~up[u].failed  \* mutant: whether the file was moved is not asked
Saved(u) == Moves(u)

(* An upload of `c` that has all come: moved into place, or nothing is left.   *)
Finishes(u, sent, connections) ==
    IF sent /\ Moves(u)
    THEN Answers(IF Saved(u) THEN "saved" ELSE "failed", ReplaceWithFile(u), [up EXCEPT ![u] = Unused], connections)
    ELSE Answers(IF sent /\ Saved(u) THEN "saved" ELSE "failed", imports, [up EXCEPT ![u] = CloseFile(@)], connections)

(* CLOSE.                                                                   *)
Close(c, u) ==
    /\ conn[c].runs = "sftp" /\ u \in OpenBy(c) /\ (up[u].size >= Smallest \/ up[u].failed)
    /\ Finishes(u, TRUE, conn)
    /\ UNCHANGED user

RemoveFile(c, n) ==
    /\ conn[c].runs = "sftp" /\ AreaWritable(c) /\ Is(<<conn[c].dir, n>>)
    /\ Becomes([imports EXCEPT ![<<conn[c].dir, n>>] = NoFile], up, conn)
    /\ UNCHANGED user

(* The client goes: ~SftpSession closes what is open.                         *)
SftpEnds(c) ==
    /\ conn[c].runs = "sftp"
    /\ Becomes(imports, [u \in Uploads |-> IF u \in OpenBy(c) THEN CloseFile(up[u]) ELSE up[u]],
               [conn EXCEPT ![c] = Idle])
    /\ UNCHANGED user

-----------------------------------------------------------------------------
(* scp -t.  `size` is what the client's file line says it will send.          *)

Receive(c) ==
    /\ MayAsk(c, "scp -t") /\ AreaWritable(c)
    /\ Becomes(imports, up, [conn EXCEPT ![c] = [Idle EXCEPT !.runs = "scp -t", !.dir = user]])
    /\ UNCHANGED user

FileFits(size, dir, n) == size <= SftpUploadLimit(SftpImportsBytesUsed(dir, n))
ReceiveFile(c, n, size) ==
    /\ conn[c].runs = "scp -t" /\ OpenBy(c) = {}
    /\ IF FileFits(size, conn[c].dir, n)
       THEN CreatesTemp(c, n, size)
       ELSE Becomes(imports, up, [conn EXCEPT ![c].failed = TRUE])
    /\ UNCHANGED user

(* A name that isn't allowed, a folder, or a file the client could not send.   *)
SkipsFile(c) ==
    /\ conn[c].runs = "scp -t" /\ OpenBy(c) = {}
    /\ Becomes(imports, up, [conn EXCEPT ![c].failed = TRUE])
    /\ UNCHANGED user

(* A chunk; once a write has failed the rest is only read.                    *)
Chunks(rec) == IF rec.failed THEN {Lost(rec)} ELSE {Stored(rec), Lost(rec)}
ReceiveChunk(c, u) ==
    /\ conn[c].runs = "scp -t" /\ u \in OpenBy(c) /\ up[u].size < up[u].limit
    /\ \E rec \in Chunks(up[u]) :
         Becomes(imports, [up EXCEPT ![u] = rec], conn)
    /\ UNCHANGED user

(* All of it read: the client's last word decides, then the disk.  An end of   *)
(* the stream in place of it is no error in the exit status.                 *)
ReceiveEnds(c, u, word) ==
    /\ conn[c].runs = "scp -t" /\ u \in OpenBy(c) /\ (up[u].failed \/ up[u].size = up[u].limit)
    /\ Finishes(u, word = "sent",
         [conn EXCEPT ![c].failed = @ \/ word = "error" \/ (word = "sent" /\ ~Moves(u))])
    /\ UNCHANGED user

(* The end of the stream, between files or within one.                        *)
ScpEnds(c) ==
    /\ conn[c].runs = "scp -t"
    /\ Answers(IF conn[c].failed \/ OpenBy(c) # {} THEN "exit 1" ELSE "exit 0", imports,
               [u \in Uploads |-> IF u \in OpenBy(c) THEN CloseFile(up[u]) ELSE up[u]],
               [conn EXCEPT ![c] = Idle])
    /\ UNCHANGED user

-----------------------------------------------------------------------------
(* scp -f of a file in either folder.  Its name is looked up again for its      *)
(* size once it is open, so a file put there in between makes it fail, or end   *)
(* short with no word of it.                                                *)
Send(c, n) ==
    /\ MayAsk(c, "scp -f") /\ Is(<<user, n>>)
    /\ \E status \in {"exit 0", "exit 1"} : Answers(status, imports, up, conn)
    /\ UNCHANGED user

-----------------------------------------------------------------------------
(* The exec commands that use an upload (RunRemoteCommand).                    *)

(* ImportUpload reads the file and removes it, by its name, once it has had    *)
(* its say; a question to the user keeps it.                                *)
ImportUpload(c, n) ==
    /\ MayAsk(c, "exec") /\ AreaWritable(c) /\ Is(<<user, n>>)
    /\ Becomes(imports, up, [conn EXCEPT ![c] = [Idle EXCEPT !.runs = "import", !.dir = user, !.name = n]])
    /\ UNCHANGED user

ImportEnds(c, asks) ==
    /\ conn[c].runs = "import"
    /\ Becomes(IF asks THEN imports ELSE [imports EXCEPT ![<<conn[c].dir, conn[c].name>>] = NoFile],
               up, [conn EXCEPT ![c] = Idle])
    /\ UNCHANGED user

DiscardUpload(c, n) ==
    /\ MayAsk(c, "exec") /\ AreaWritable(c) /\ Is(<<user, n>>)
    /\ Becomes([imports EXCEPT ![<<user, n>>] = NoFile], up, conn)
    /\ UNCHANGED user

-----------------------------------------------------------------------------
(* What else happens to the folders.                                        *)

(* A process is killed: nobody closes its files.                             *)
Dies(c) ==
    /\ conn[c].runs # "nothing"
    /\ Becomes(imports, [u \in Uploads |-> IF u \in OpenBy(c) THEN LeftOf(up[u], "stray") ELSE up[u]],
               [conn EXCEPT ![c] = Idle])
    /\ UNCHANGED user

(* The user's folder follows their name, with whatever is being written;       *)
(* connections keep the path they logged in with.                            *)
MoveSshUserFiles ==
    /\ user = OldName /\ user' = NewName
    /\ Cardinality({p \in Paths : Is(p)}) <= MaxMoved
    /\ Becomes([p \in Paths |-> IF p[1] = NewName THEN imports[<<OldName, p[2]>>] ELSE NoFile],
               [u \in Uploads |-> IF up[u].temp = OldName THEN [up[u] EXCEPT !.temp = NewName] ELSE up[u]],
               conn)

(* Every hour the files last written a week ago go (RemoveOldFilesUnder), the   *)
(* hidden ones too; any file may be that old.                               *)
RemovesOldFile(p) ==
    /\ Is(p)
    /\ Becomes([imports EXCEPT ![p] = NoFile], up, conn)
    /\ UNCHANGED user

RemovesOldTemp(u) ==
    /\ up[u].temp # Nowhere
    /\ Becomes(imports, [up EXCEPT ![u].temp = Nowhere], conn)
    /\ UNCHANGED user

-----------------------------------------------------------------------------
Sftp(c) == \/ RunSftpSession(c) \/ SftpEnds(c)
           \/ \E n \in Names : OpenForWriting(c, n) \/ RemoveFile(c, n)
           \/ \E u \in Uploads : Write(c, u) \/ Close(c, u)
Scp(c) == \/ Receive(c) \/ SkipsFile(c) \/ ScpEnds(c)
          \/ \E n \in Names : Send(c, n) \/ \E size \in Smallest..Longest : ReceiveFile(c, n, size)
          \/ \E u \in Uploads : ReceiveChunk(c, u) \/ \E word \in {"sent", "error", "gone"} : ReceiveEnds(c, u, word)
Exec(c) == \/ \E n \in Names : ImportUpload(c, n) \/ DiscardUpload(c, n)
           \/ \E asks \in BOOLEAN : ImportEnds(c, asks)
Next == \/ \E c \in Connections : Sftp(c) \/ Scp(c) \/ Exec(c) \/ Dies(c)
        \/ MoveSshUserFiles
        \/ \E p \in Paths : RemovesOldFile(p)
        \/ \E u \in Uploads : RemovesOldTemp(u)

Spec == Init /\ [][Next]_vars
-----------------------------------------------------------------------------
(* Properties.                                                              *)

File == [size : Nat, missed : BOOLEAN, is : BOOLEAN]
Record == [stage : {"unused", "open", "closed", "stray"}, name : Names \cup {""},
           dir : Dirs \cup {Nowhere}, temp : Dirs \cup {Nowhere}, limit : Nat, size : Nat,
           failed : BOOLEAN, missed : BOOLEAN, by : Connections \cup {"nobody"}]
Process == [runs : {"nothing", "sftp", "scp -t", "import"}, dir : Dirs \cup {Nowhere},
            failed : BOOLEAN, name : Names \cup {""}]

(* The type invariant.                                                      *)
TypeOK ==
    /\ user \in Dirs
    /\ imports \in [Paths -> File]
    /\ up \in [Uploads -> Record]
    /\ conn \in [Connections -> Process]
    /\ told \in {"", "saved", "failed", "exit 0", "exit 1"}

(* "moved into place when it's closed, so the Import page never lists half a  *)
(* file": every file in /imports is all that its client sent, whatever write  *)
(* failed, process died or folder moved on the way.                          *)
OnlyWhole == \A p \in Paths : ~imports[p].missed

(* A hidden temporary file is that of an upload still being written, or was    *)
(* left by a process that died or by a move of the folder: no other way an     *)
(* upload ends leaves one, which would count against /imports.               *)
NoStrayTemps ==
    \A u \in Uploads : up[u].temp # Nowhere =>
        \/ Open(u) /\ conn[up[u].by].runs \in {"sftp", "scp -t"}
        \/ up[u].stage = "stray" \/ up[u].temp # up[u].dir

(* "Two uploads at once can each have the whole of what's left, so the total   *)
(* can briefly run over by one file's worth": a file's worth for each upload  *)
(* at once after the first, and no more by any order of them.                *)
WithinOneFile ==
    \A dir \in Dirs : FilesSize(dir, Names) <= MaxImports + (AtOnce - 1) * MaxUpload

(* An upload answered OK is in place then, in the folder its connection logged *)
(* in to, and one answered with a failure has left what was there alone.      *)
ToldIsThere ==
    [][\A u \in Uploads :
        Open(u) /\ ~Open(u)' =>
            IF told' = "saved" THEN imports'[Target(u)] = FileOf(u) ELSE imports' = imports]_vars
=============================================================================
