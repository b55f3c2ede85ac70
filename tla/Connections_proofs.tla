-------------------------- MODULE Connections_proofs --------------------------
(***************************************************************************)
(* Proofs about the SSH server, for any number of connections and whatever  *)
(* the clients ask for: types; the fork rule; and that a channel has one    *)
(* use.                                                                     *)
(***************************************************************************)
EXTENDS Connections, TLAPS, FiniteSetTheorems

-----------------------------------------------------------------------------
(* What goes together in a connection's process and the session it forked.   *)

Record == [at : Places, alarm : BOOLEAN, db : BOOLEAN, listens : BOOLEAN,
           authenticated : BOOLEAN, channel : BOOLEAN, registered : BOOLEAN, pty : BOOLEAN,
           slave : BOOLEAN, shell : BOOLEAN, sftp : BOOLEAN,
           exec : {"no", "command", "scp", "mosh"}]

(* Where a process that forked a session can be; past "serve" it is nobody   *)
(* else.                                                                    *)
Shells == {"serve", "relay", "closePty", "stop", "termed", "killed", "closing"}

(* Process r, with session k, keeps to the order of HandleConnection.        *)
Fits(r, k) ==
    /\ r.alarm => r.at \in {"kex", "auth", "serve"}
    /\ r.db => r.at \in {"kex", "auth"}
    /\ r.slave => r.pty
    /\ r.shell => /\ r.at \in Shells /\ ~r.slave /\ ~r.sftp /\ r.exec = "no"
                  /\ r.at \in {"serve", "relay", "closePty"} => r.pty
    /\ r.at \in Shells \ {"serve"} => r.shell
    /\ r.sftp => r.exec = "no"
    /\ k # "none" => r.shell \/ r.at = "gone"

Children == {"none", "running", "drawing", "ended"}
Tokens == {"none", "opened", "written", "old", "removed"}
Moshes == {"none", "starting", "detached", "valid", "invalid", "session", "refused", "ended"}

Typed ==
    /\ console \in BOOLEAN /\ listener \in BOOLEAN /\ restarts \in 0..MaxRestarts
    /\ client \in [Conns -> Clients]
    /\ conn \in [Conns -> Record]
    /\ child \in [Conns -> Children]
    /\ token \in [Conns -> Tokens]
    /\ mosh \in [Conns -> Moshes]

ConnInv == Typed /\ \A c \in Conns : Fits(conn[c], child[c])

LEMMA ProcessFits ==
    ASSUME NEW at \in {"none", "forked", "gone"}
    PROVE  /\ Process(at) \in Record /\ Process(at).at = at
           /\ \A k : k # "none" /\ at = "gone" => Fits(Process(at), k)
           /\ Fits(Process(at), "none")
BY DEF Process, Record, Places, Fits, Shells

LEMMA InitConn == Init => ConnInv
<1> SUFFICES ASSUME Init PROVE ConnInv
    OBVIOUS
<1>1. restarts \in 0..MaxRestarts
    BY ConnectionsAssumption DEF Init
<1> QED BY <1>1, ProcessFits DEF Init, ConnInv, Typed, Clients, Children, Tokens, Moshes

-----------------------------------------------------------------------------
(* One process goes on to r, its session to k.                               *)
LEMMA OneMoves ==
    ASSUME ConnInv, NEW c \in Conns, NEW r \in Record, NEW k \in Children,
           conn' = [conn EXCEPT ![c] = r], child' = [child EXCEPT ![c] = k], Fits(r, k),
           UNCHANGED Server, client' \in [Conns -> Clients],
           token' \in [Conns -> Tokens], mosh' \in [Conns -> Moshes]
    PROVE  ConnInv'
<1>1. Typed'
    BY DEF ConnInv, Typed, Server
<1>2. ASSUME NEW d \in Conns PROVE Fits(conn[d], child[d])'
    <2>1. CASE d = c
        BY <2>1 DEF ConnInv, Typed
    <2>2. CASE d # c
        <3>1. conn'[d] = conn[d] /\ child'[d] = child[d]
            BY <2>2 DEF ConnInv, Typed
        <3>2. Fits(conn[d], child[d])
            BY DEF ConnInv
        <3> QED BY <3>1, <3>2
    <2> QED BY <2>1, <2>2
<1> QED BY <1>1, <1>2 DEF ConnInv

LEMMA OneExits ==
    ASSUME ConnInv, NEW c \in Conns, Exits(c), UNCHANGED <<Server, Others>>
    PROVE  ConnInv'
<1>1. Fits(Process("gone"), child[c]) /\ Process("gone") \in Record
    BY ProcessFits
<1>2. child' = [child EXCEPT ![c] = child[c]] /\ child[c] \in Children
      /\ client' \in [Conns -> Clients]
    BY DEF ConnInv, Typed, Exits, Others, Clients
<1>3. token' \in [Conns -> Tokens] /\ mosh' \in [Conns -> Moshes] /\ UNCHANGED Server
    BY DEF ConnInv, Typed, Others
<1>4. conn' = [conn EXCEPT ![c] = Process("gone")]
    BY DEF Exits, Becomes
<1> QED BY <1>1, <1>2, <1>3, <1>4, OneMoves

(* Only the process changes.                                                 *)
LEMMA OnlyConn ==
    ASSUME ConnInv, NEW c \in Conns, NEW r \in Record, conn' = [conn EXCEPT ![c] = r],
           Fits(r, child[c]), UNCHANGED <<Server, child>>, client' \in [Conns -> Clients],
           token' \in [Conns -> Tokens], mosh' \in [Conns -> Moshes]
    PROVE  ConnInv'
<1>1. child' = [child EXCEPT ![c] = child[c]] /\ child[c] \in Children
    BY DEF ConnInv, Typed
<1> QED BY <1>1, OneMoves

(* No process changes.                                                       *)
LEMMA NoneMoves ==
    ASSUME ConnInv, UNCHANGED <<conn, child>>, console' \in BOOLEAN, listener' \in BOOLEAN,
           restarts' \in 0..MaxRestarts, client' \in [Conns -> Clients],
           token' \in [Conns -> Tokens], mosh' \in [Conns -> Moshes]
    PROVE  ConnInv'
BY DEF ConnInv, Typed

LEMMA TypesOf ==
    ASSUME ConnInv, NEW c \in Conns
    PROVE  /\ conn[c] \in Record /\ Fits(conn[c], child[c]) /\ child[c] \in Children
           /\ conn \in [Conns -> Record] /\ child \in [Conns -> Children]
           /\ client \in [Conns -> Clients] /\ token \in [Conns -> Tokens]
           /\ mosh \in [Conns -> Moshes]
           /\ console \in BOOLEAN /\ listener \in BOOLEAN /\ restarts \in 0..MaxRestarts
BY DEF ConnInv, Typed

-----------------------------------------------------------------------------
(* What a client asks for, before and after it has logged in.                *)
LEMMA ClientKeeps ==
    ASSUME ConnInv, NEW c \in Conns, ClientStep(c)
    PROVE  ConnInv'
<1>1. /\ conn[c] \in Record /\ Fits(conn[c], child[c]) /\ child[c] \in Children
      /\ client \in [Conns -> Clients] /\ token \in [Conns -> Tokens] /\ mosh \in [Conns -> Moshes]
    BY TypesOf
<1>2. CASE Connects(c) \/ Leaves(c)
    BY <1>2, TypesOf, NoneMoves DEF Connects, Leaves, Clients, Server, Others
<1>3. CASE KeyExchange(c)
    <2> DEFINE r == [conn[c] EXCEPT !.at = "auth"]
    <2>1. r \in Record /\ Fits(r, child[c])
        BY <1>1, <1>3 DEF KeyExchange, At, Record, Places, Fits, Shells
    <2>2. conn' = [conn EXCEPT ![c] = r] /\ UNCHANGED <<Server, client, Others>>
        BY <1>3 DEF KeyExchange, Goes
    <2> HIDE DEF r
    <2> QED BY <1>1, <2>1, <2>2, OnlyConn DEF Others
<1>4. CASE AuthPubkeyCallback(c)
    <2> DEFINE r == [conn[c] EXCEPT !.authenticated = TRUE]
    <2>1. r \in Record /\ Fits(r, child[c])
        BY <1>1 DEF Record, Fits
    <2>2. conn' = [conn EXCEPT ![c] = r] /\ UNCHANGED <<Server, client, Others>>
        BY <1>4 DEF AuthPubkeyCallback
    <2> HIDE DEF r
    <2> QED BY <1>1, <2>1, <2>2, OnlyConn DEF Others
<1>5. CASE ChannelOpenCallback(c)
    <2> DEFINE r == [conn[c] EXCEPT !.channel = TRUE]
    <2>1. r \in Record /\ Fits(r, child[c])
        BY <1>1 DEF Record, Fits
    <2>2. conn' = [conn EXCEPT ![c] = r] /\ UNCHANGED <<Server, client, Others>>
        BY <1>5 DEF ChannelOpenCallback
    <2> HIDE DEF r
    <2> QED BY <1>1, <2>1, <2>2, OnlyConn DEF Others
<1>6. CASE PtyRequestCallback(c)
    <2> DEFINE r == [conn[c] EXCEPT !.pty = TRUE, !.slave = TRUE]
    <2>1. r \in Record /\ Fits(r, child[c])
        BY <1>1, <1>6 DEF PtyRequestCallback, MayAsk, At, Record, Fits, Shells
    <2>2. conn' = [conn EXCEPT ![c] = r] /\ UNCHANGED <<Server, client, Others>>
        BY <1>1, <1>6 DEF PtyRequestCallback, Record
    <2> HIDE DEF r
    <2> QED BY <1>1, <2>1, <2>2, OnlyConn DEF Others
<1>7. CASE ShellRequestCallback(c)
    <2> DEFINE r == [conn[c] EXCEPT !.shell = TRUE, !.slave = FALSE]
    <2>1. r \in Record /\ Fits(r, "running") /\ "running" \in Children
        BY <1>1, <1>7
        DEF ShellRequestCallback, MayAsk, MayFork, At, Record, Fits, Shells, Children
    <2>2. conn' = [conn EXCEPT ![c] = r] /\ child' = [child EXCEPT ![c] = "running"]
          /\ UNCHANGED <<Server, client, token, mosh>>
        BY <1>1, <1>7 DEF ShellRequestCallback, Record
    <2> HIDE DEF r
    <2> QED BY <1>1, <2>1, <2>2, OneMoves
<1>8. CASE SubsystemRequestCallback(c)
    <2> DEFINE r == [conn[c] EXCEPT !.sftp = TRUE]
    <2>1. r \in Record /\ Fits(r, child[c])
        BY <1>1, <1>8 DEF SubsystemRequestCallback, MayAsk, NothingStarted, At, Record, Fits, Shells
    <2>2. conn' = [conn EXCEPT ![c] = r] /\ UNCHANGED <<Server, client, Others>>
        BY <1>8 DEF SubsystemRequestCallback
    <2> HIDE DEF r
    <2> QED BY <1>1, <2>1, <2>2, OnlyConn DEF Others
<1>9. CASE ExecRequestCallback(c)
    <2>1. PICK what \in {"command", "scp", "mosh"} : conn' = [conn EXCEPT ![c].exec = what]
        BY <1>9 DEF ExecRequestCallback
    <2> DEFINE r == [conn[c] EXCEPT !.exec = what]
    <2>2. r \in Record /\ Fits(r, child[c])
        BY <1>1, <1>9 DEF ExecRequestCallback, MayAsk, NothingStarted, At, Record, Fits, Shells
    <2>3. conn' = [conn EXCEPT ![c] = r] /\ UNCHANGED <<Server, client, Others>>
        BY <1>9, <2>1 DEF ExecRequestCallback
    <2> HIDE DEF r
    <2> QED BY <1>1, <2>2, <2>3, OnlyConn DEF Others
<1>10. CASE KeyExchangeFails(c)
    BY <1>10, OneExits DEF KeyExchangeFails
<1>11. CASE RunSftpSession(c)
    <2> DEFINE r == [conn[c] EXCEPT !.at = "ending"]
    <2>1. r \in Record /\ Fits(r, child[c])
        BY <1>1, <1>11 DEF RunSftpSession, ServesFiles, At, Record, Places, Fits, Shells
    <2>2. conn' = [conn EXCEPT ![c] = r] /\ UNCHANGED <<Server, client, Others>>
        BY <1>11 DEF RunSftpSession, Goes
    <2> HIDE DEF r
    <2> QED BY <1>1, <2>1, <2>2, OnlyConn DEF Others
<1> QED BY <1>2, <1>3, <1>4, <1>5, <1>6, <1>7, <1>8, <1>9, <1>10, <1>11 DEF ClientStep

(* HandleConnection, and the token of a Mosh login.                          *)
LEMMA ServerKeeps ==
    ASSUME ConnInv, NEW c \in Conns, ServerStep(c)
    PROVE  ConnInv'
<1>1. /\ conn[c] \in Record /\ Fits(conn[c], child[c]) /\ child[c] \in Children
      /\ client \in [Conns -> Clients] /\ token \in [Conns -> Tokens] /\ mosh \in [Conns -> Moshes]
    BY TypesOf
<1>2. CASE HandleConnection(c)
    <2> DEFINE r == [conn[c] EXCEPT !.at = "kex", !.listens = FALSE, !.alarm = TRUE, !.db = TRUE]
    <2>1. r \in Record /\ Fits(r, child[c])
        BY <1>1, <1>2 DEF HandleConnection, At, Record, Places, Fits, Shells
    <2>2. conn' = [conn EXCEPT ![c] = r] /\ UNCHANGED <<Server, client, Others>>
        BY <1>1, <1>2 DEF HandleConnection, Starts, Record
    <2> HIDE DEF r
    <2> QED BY <1>1, <2>1, <2>2, OnlyConn DEF Others
<1>3. CASE AuthEnds(c)
    <2>1. CASE ~conn[c].authenticated
        BY <1>3, <2>1, OneExits DEF AuthEnds
    <2>2. CASE conn[c].authenticated
        <3> DEFINE r == [conn[c] EXCEPT !.at = "serve", !.db = FALSE]
        <3>1. r \in Record /\ Fits(r, child[c])
            BY <1>1, <1>3 DEF AuthEnds, At, Record, Places, Fits, Shells
        <3>2. conn' = [conn EXCEPT ![c] = r] /\ UNCHANGED <<Server, client, Others>>
            BY <1>1, <1>3, <2>2 DEF AuthEnds, LeavesAuth, Record
        <3> HIDE DEF r
        <3> QED BY <1>1, <3>1, <3>2, OnlyConn DEF Others
    <2> QED BY <2>1, <2>2
<1>4. CASE RegisterCallbacks(c)
    <2> DEFINE r == [conn[c] EXCEPT !.registered = TRUE]
    <2>1. r \in Record /\ Fits(r, child[c])
        BY <1>1 DEF Record, Fits
    <2>2. conn' = [conn EXCEPT ![c] = r] /\ UNCHANGED <<Server, client, Others>>
        BY <1>4 DEF RegisterCallbacks
    <2> HIDE DEF r
    <2> QED BY <1>1, <2>1, <2>2, OnlyConn DEF Others
<1>5. CASE ServeEnds(c)
    <2>1. CASE conn[c].sftp \/ conn[c].exec # "no"
        <3>1. PICK at \in {"sftp", "moshToken", "exec"} :
                conn' = [conn EXCEPT ![c] = [conn[c] EXCEPT !.at = at, !.alarm = FALSE,
                                                            !.pty = FALSE, !.slave = FALSE]]
            BY <1>1, <1>5, <2>1 DEF ServeEnds, Record
        <3> DEFINE r == [conn[c] EXCEPT !.at = at, !.alarm = FALSE, !.pty = FALSE, !.slave = FALSE]
        <3>2. r \in Record /\ Fits(r, child[c])
            BY <1>1, <1>5, <2>1 DEF ServeEnds, At, Record, Places, Fits, Shells
        <3>3. conn' = [conn EXCEPT ![c] = r] /\ UNCHANGED <<Server, client, Others>>
            BY <1>5, <2>1, <3>1 DEF ServeEnds
        <3> HIDE DEF r
        <3> QED BY <1>1, <3>2, <3>3, OnlyConn DEF Others
    <2>2. CASE ~(conn[c].sftp \/ conn[c].exec # "no") /\ conn[c].shell
        <3> DEFINE r == [conn[c] EXCEPT !.at = "relay", !.alarm = FALSE]
        <3>1. r \in Record /\ Fits(r, child[c])
            BY <1>1, <1>5, <2>2 DEF ServeEnds, At, Record, Places, Fits, Shells
        <3>2. conn' = [conn EXCEPT ![c] = r] /\ UNCHANGED <<Server, client, Others>>
            BY <1>1, <1>5, <2>2 DEF ServeEnds, StartsRelay, Record
        <3> HIDE DEF r
        <3> QED BY <1>1, <3>1, <3>2, OnlyConn DEF Others
    <2>3. CASE ~(conn[c].sftp \/ conn[c].exec # "no") /\ ~conn[c].shell
        BY <1>5, <2>3, OneExits DEF ServeEnds
    <2> QED BY <2>1, <2>2, <2>3
<1>6. CASE RelayEnds(c)
    <2> DEFINE r == [conn[c] EXCEPT !.at = "closePty"]
    <2>1. r \in Record /\ Fits(r, child[c])
        BY <1>1, <1>6 DEF RelayEnds, At, Record, Places, Fits, Shells
    <2>2. conn' = [conn EXCEPT ![c] = r] /\ UNCHANGED <<Server, client, Others>>
        BY <1>6 DEF RelayEnds, RelayOver, Goes
    <2> HIDE DEF r
    <2> QED BY <1>1, <2>1, <2>2, OnlyConn DEF Others
<1>7. CASE ClosePty(c)
    <2> DEFINE r == [conn[c] EXCEPT !.at = "stop", !.pty = FALSE]
    <2>1. r \in Record /\ Fits(r, child[c])
        BY <1>1, <1>7 DEF ClosePty, At, Record, Places, Fits, Shells
    <2>2. conn' = [conn EXCEPT ![c] = r] /\ UNCHANGED <<Server, client, Others>>
        BY <1>1, <1>7 DEF ClosePty, Record
    <2> HIDE DEF r
    <2> QED BY <1>1, <2>1, <2>2, OnlyConn DEF Others
<1>8. CASE StopSessionChild(c)
    <2>1. PICK at \in {"closing", "termed", "killed"} : Goes(c, at)
        BY <1>8 DEF StopSessionChild
    <2> DEFINE r == [conn[c] EXCEPT !.at = at]
    <2>2. r \in Record /\ Fits(r, child[c])
        BY <1>1, <1>8 DEF StopSessionChild, At, Record, Places, Fits, Shells
    <2>3. conn' = [conn EXCEPT ![c] = r] /\ UNCHANGED <<Server, client, Others>>
        BY <1>8, <2>1 DEF StopSessionChild, Goes
    <2> HIDE DEF r
    <2> QED BY <1>1, <2>2, <2>3, OnlyConn DEF Others
<1>9. CASE Disconnect(c) \/ EndChannel(c) \/ KeyExchangeFails(c)
    BY <1>9, OneExits DEF Disconnect, EndChannel, KeyExchangeFails
<1>10. CASE \/ RunExecCommand(c) \/ RunSftpSession(c) \/ RemoveStaleTokens(c) \/ CreateMoshToken(c)
            \/ WriteMoshToken(c) \/ SpawnMoshServer(c) \/ RunMoshServerCommand(c)
    <2>1. PICK at \in {"ending", "moshOpen", "moshWrite", "moshSpawn", "moshRelay"} : Goes(c, at)
        BY <1>10 DEF RunExecCommand, RunSftpSession, RemoveStaleTokens, CreateMoshToken,
            WriteMoshToken, SpawnMoshServer, RunMoshServerCommand
    <2>2. conn[c].at \in {"exec", "sftp", "moshToken", "moshOpen", "moshWrite", "moshSpawn", "moshRelay"}
        BY <1>10 DEF RunExecCommand, RunSftpSession, ServesFiles, RemoveStaleTokens,
            CreateMoshToken, WriteMoshToken, SpawnMoshServer, RunMoshServerCommand, At
    <2> DEFINE r == [conn[c] EXCEPT !.at = at]
    <2>3. r \in Record /\ Fits(r, child[c])
        BY <1>1, <2>2 DEF Record, Places, Fits, Shells
    <2>4. conn' = [conn EXCEPT ![c] = r]
        BY <2>1 DEF Goes
    <2>5. UNCHANGED <<Server, client, child>>
        BY <1>10 DEF RunExecCommand, RunSftpSession, RemoveStaleTokens, CreateMoshToken,
            WriteMoshToken, SpawnMoshServer, RunMoshServerCommand, Others
    <2>6. token' \in [Conns -> Tokens] /\ mosh' \in [Conns -> Moshes]
        BY <1>1, <1>10 DEF RunExecCommand, RunSftpSession, RemoveStaleTokens, CreateMoshToken,
            WriteMoshToken, SpawnMoshServer, RunMoshServerCommand, Others, Tokens, Moshes
    <2> HIDE DEF r
    <2> QED BY <1>1, <2>3, <2>4, <2>5, <2>6, OnlyConn
<1> QED BY <1>2, <1>3, <1>4, <1>5, <1>6, <1>7, <1>8, <1>9, <1>10 DEF ServerStep

LEMMA NextKeeps ==
    ASSUME ConnInv, [Next]_vars
    PROVE  ConnInv'
<1> USE DEF Server, Others
<1>1. CASE UNCHANGED vars
    BY <1>1 DEF ConnInv, Typed, vars
<1>2. CASE StopSshServerProcess \/ StartSshServerProcess \/ ListenerEnds
    <2>1. restarts' \in 0..MaxRestarts
        BY <1>2, ConnectionsAssumption
        DEF StopSshServerProcess, StartSshServerProcess, ListenerEnds, ConnInv, Typed
    <2>2. /\ console' \in BOOLEAN /\ listener' \in BOOLEAN
          /\ UNCHANGED <<client, conn, child, token, mosh>>
        BY <1>2 DEF StopSshServerProcess, StartSshServerProcess, ListenerEnds, ConnInv, Typed
    <2> QED BY <2>1, <2>2, NoneMoves DEF ConnInv, Typed
<1>3. ASSUME NEW c \in Conns,
             \/ Accept(c) \/ BacklogDropped(c) \/ AlarmGoesOff(c) \/ KeepaliveFails(c)
             \/ PtyMasterReadableCallback(c) \/ SessionGoesOn(c) \/ SessionStops(c)
             \/ ServerStep(c) \/ ClientStep(c) \/ MoshStep(c)
      PROVE  ConnInv'
    <2>1. /\ conn[c] \in Record /\ Fits(conn[c], child[c]) /\ child[c] \in Children
          /\ conn \in [Conns -> Record] /\ child \in [Conns -> Children]
          /\ client \in [Conns -> Clients] /\ token \in [Conns -> Tokens]
          /\ mosh \in [Conns -> Moshes]
          /\ console \in BOOLEAN /\ listener \in BOOLEAN /\ restarts \in 0..MaxRestarts
        BY TypesOf
    <2>2. CASE Accept(c)
        <3>1. CASE Exits(c)
            BY <2>2, <3>1, OneExits DEF Accept
        <3>2. CASE ~Exits(c)
            <4> DEFINE r == [Process("forked") EXCEPT !.listens = TRUE]
            <4>1. child[c] = "none"
                BY <2>1, <2>2 DEF Accept, Fits, Shells
            <4>2. r \in Record /\ Fits(r, "none")
                BY DEF Process, Record, Places, Fits, Shells
            <4>3. conn' = [conn EXCEPT ![c] = r] /\ UNCHANGED <<Server, child, token, mosh>>
                BY <2>2, <3>2 DEF Accept
            <4>4. client' \in [Conns -> Clients]
                BY <2>1, <2>2, <3>2 DEF Accept, Clients
            <4> HIDE DEF r
            <4> QED BY <2>1, <4>1, <4>2, <4>3, <4>4, OnlyConn
        <3> QED BY <3>1, <3>2
    <2>3. CASE BacklogDropped(c) \/ AlarmGoesOff(c)
        BY <2>3, OneExits DEF BacklogDropped, AlarmGoesOff
    <2>4. CASE KeepaliveFails(c) \/ MoshStep(c)
        <3>1. UNCHANGED <<console, listener, restarts, conn, child>>
            BY <2>4 DEF KeepaliveFails, MoshStep, TokenAges, MoshServerDetaches, RunMoshSession,
                ConsumeMoshToken, MoshSessionEnds
        <3>2. client' \in [Conns -> Clients]
            BY <2>1, <2>4 DEF KeepaliveFails, MoshStep, TokenAges, MoshServerDetaches,
                RunMoshSession, ConsumeMoshToken, MoshSessionEnds, Clients
        <3>3. token' \in [Conns -> Tokens]
            BY <2>1, <2>4 DEF KeepaliveFails, MoshStep, TokenAges, MoshServerDetaches,
                RunMoshSession, ConsumeMoshToken, MoshSessionEnds, Tokens
        <3>4. mosh' \in [Conns -> Moshes]
            BY <2>1, <2>4 DEF KeepaliveFails, MoshStep, TokenAges, MoshServerDetaches,
                RunMoshSession, ConsumeMoshToken, MoshSessionEnds, Moshes
        <3> QED BY <2>1, <3>1, <3>2, <3>3, <3>4, NoneMoves
    <2>5. CASE PtyMasterReadableCallback(c) \/ SessionGoesOn(c) \/ SessionStops(c)
        <3>1. PICK k \in {"running", "drawing", "ended"} : child' = [child EXCEPT ![c] = k]
            BY <2>5 DEF PtyMasterReadableCallback, SessionGoesOn, SessionStops
        <3>2. Fits(conn[c], k) /\ k \in Children
            BY <2>1, <2>5 DEF PtyMasterReadableCallback, SessionGoesOn, SessionStops, Fits, Children
        <3>3. conn' = [conn EXCEPT ![c] = conn[c]] /\ UNCHANGED <<Server, client, token, mosh>>
            BY <2>1, <2>5 DEF PtyMasterReadableCallback, SessionGoesOn, SessionStops
        <3> QED BY <2>1, <3>1, <3>2, <3>3, OneMoves
    <2> QED BY <1>3, <2>2, <2>3, <2>4, <2>5, ServerKeeps, ClientKeeps
<1> QED BY <1>1, <1>2, <1>3 DEF Next

(* HandleConnection's order holds at every step of every connection.         *)
THEOREM ConnInvAlways == Spec => []ConnInv
<1>1. ConnInv /\ [Next]_vars => ConnInv'
    BY NextKeeps
<1> QED BY InitConn, <1>1, PTL DEF Spec

-----------------------------------------------------------------------------
(* Types, for any number of connections; and the 90 seconds' alarm is set    *)
(* only until the channel is in use: no session or transfer is cut off by it. *)
THEOREM TypesAlways == Spec => []TypeOK
<1>1. ConnInv => TypeOK
    BY DEF ConnInv, Typed, TypeOK, Record, Fits, Children, Tokens, Moshes
<1> QED BY ConnInvAlways, <1>1, PTL

(* The fork rule: ShellRequestCallback forks the session in a process whose   *)
(* database LeavesAuth has closed before any request can be answered.        *)
THEOREM ForkRuleHolds == Spec => ForkRule
<1>1. ASSUME ConnInv, [Next]_vars, NEW c \in Conns, child[c] = "none", child'[c] = "running"
      PROVE  ~conn[c].db
    <2>1. PICK d \in Conns : \/ PtyMasterReadableCallback(d) \/ SessionGoesOn(d)
                             \/ SessionStops(d) \/ ShellRequestCallback(d)
        <3>1. child' # child
            BY <1>1
        <3> QED BY <1>1, <3>1 DEF Next, vars, Exits, Server, Others, StopSshServerProcess,
                StartSshServerProcess, ListenerEnds, Accept, BacklogDropped, AlarmGoesOff,
                KeepaliveFails, ServerStep, HandleConnection, AuthEnds, RegisterCallbacks,
                ServeEnds, RelayEnds, ClosePty, StopSessionChild, Disconnect, RunExecCommand,
                EndChannel, RemoveStaleTokens, CreateMoshToken, WriteMoshToken, SpawnMoshServer,
                RunMoshServerCommand, KeyExchangeFails, RunSftpSession, ClientStep, Connects,
                Leaves, KeyExchange, AuthPubkeyCallback, ChannelOpenCallback, PtyRequestCallback,
                SubsystemRequestCallback, ExecRequestCallback, MoshStep, TokenAges,
                MoshServerDetaches, RunMoshSession, ConsumeMoshToken, MoshSessionEnds
    <2>2. child \in [Conns -> Children] /\ Fits(conn[c], child[c])
        BY <1>1, TypesOf
    <2>3. d = c /\ ShellRequestCallback(d)
        BY <1>1, <2>1, <2>2
        DEF PtyMasterReadableCallback, SessionGoesOn, SessionStops, ShellRequestCallback
    <2> QED BY <2>2, <2>3 DEF ShellRequestCallback, MayAsk, At, Fits
<1>2. ConnInv /\ [Next]_vars
        => [\A c \in Conns : child[c] = "none" /\ child'[c] = "running" => ~conn[c].db]_vars
    BY <1>1
<1> QED BY ConnInvAlways, <1>2, PTL DEF Spec, ForkRule

(* ShellRequestCallback, SubsystemRequestCallback and ExecRequestCallback:    *)
(* one channel gets one of the three, even in one poll; and no session is    *)
(* left behind in a process that serves a transfer or runs a command.        *)
THEOREM OneUseAlways == Spec => []OneUseOfAChannel
<1>1. ASSUME ConnInv, NEW c \in Conns
      PROVE  /\ Cardinality({u \in {"shell", "sftp", "exec"} :
                        CASE u = "shell" -> conn[c].shell
                          [] u = "sftp" -> conn[c].sftp
                          [] OTHER -> conn[c].exec # "no"}) <= 1
             /\ conn[c].at \in {"sftp", "exec", "moshRelay"} => ~Alive(c)
    <2> DEFINE uses == {u \in {"shell", "sftp", "exec"} :
                            CASE u = "shell" -> conn[c].shell
                              [] u = "sftp" -> conn[c].sftp
                              [] OTHER -> conn[c].exec # "no"}
    <2>1. conn[c] \in Record /\ Fits(conn[c], child[c])
        BY <1>1, TypesOf
    <2>2. uses = {} \/ \E u : uses = {u}
        <3>1. CASE conn[c].shell
            <4>1. uses = {"shell"}
                BY <2>1, <3>1 DEF Fits
            <4> QED BY <4>1
        <3>2. CASE ~conn[c].shell /\ conn[c].sftp
            <4>1. uses = {"sftp"}
                BY <2>1, <3>2 DEF Fits
            <4> QED BY <4>1
        <3>3. CASE ~conn[c].shell /\ ~conn[c].sftp /\ conn[c].exec = "no"
            <4>1. uses = {}
                BY <3>3
            <4> QED BY <4>1
        <3>4. CASE ~conn[c].shell /\ ~conn[c].sftp /\ conn[c].exec # "no"
            <4>1. uses = {"exec"}
                BY <3>4
            <4> QED BY <4>1
        <3> QED BY <3>1, <3>2, <3>3, <3>4
    <2> HIDE DEF uses
    <2>3. Cardinality(uses) <= 1
        <3>1. CASE uses = {}
            <4>1. Cardinality(uses) = 0
                BY <3>1, FS_EmptySet
            <4> QED BY <4>1
        <3>2. CASE \E u : uses = {u}
            <4>1. Cardinality(uses) = 1
                BY <3>2, FS_Singleton
            <4> QED BY <4>1
        <3> QED BY <2>2, <3>1, <3>2
    <2>4. conn[c].at \in {"sftp", "exec", "moshRelay"} => ~Alive(c)
        BY <2>1 DEF Fits, Shells, Alive
    <2> QED BY <2>3, <2>4 DEF uses
<1>2. ConnInv => OneUseOfAChannel
    BY <1>1 DEF OneUseOfAChannel
<1> QED BY ConnInvAlways, <1>2, PTL
=============================================================================
