---------------------------- MODULE Connections ----------------------------
(***************************************************************************)
(* The built-in SSH server: the listener, the process it forks for each     *)
(* connection (HandleConnection), the session process that one forks, and   *)
(* a Mosh login by way of a one-time token.                                 *)
(*                                                                         *)
(* One step is one thing a process does that another can see.  Times are    *)
(* not counted: an alarm, a deadline or TCP's keepalive may come at any     *)
(* moment while it is set, and does come if nothing else happens first.     *)
(***************************************************************************)
EXTENDS Integers, FiniteSets

CONSTANTS
    Conns,        \* the connections that are made
    Wants,        \* bound: what clients ask for: any of Requests
    MaxRestarts   \* bound: how often the console is started again

VARIABLES
    console,   \* is the console's QuickLogger running
    listener,  \* is its listener (SshAcceptLoop)
    restarts,
    client,    \* each connection's client, as TCP has it
    conn,      \* each connection's process
    child,     \* the session process it forked, at the far end of its pty
    token,     \* the file of the Mosh token it made
    mosh       \* the mosh-server it started, and the session under it

vars == <<console, listener, restarts, client, conn, child, token, mosh>>

Requests == {"shell", "sftp", "command", "scp", "mosh"}

ASSUME ConnectionsAssumption == Wants \subseteq Requests /\ MaxRestarts \in Nat

(* A client has not come yet, is in the listener's backlog, is there, has    *)
(* vanished without TCP knowing yet, or has gone (or was disconnected).      *)
Clients == {"away", "waiting", "here", "vanished", "gone"}

(* Where a connection's process is, in HandleConnection and below it.        *)
Places == {"none", "forked", "kex", "auth", "serve", "relay", "closePty", "stop", "termed",
           "killed", "closing", "sftp", "exec", "moshToken", "moshOpen", "moshWrite", "moshSpawn",
           "moshRelay", "ending", "gone"}

(* alarm        the 90 seconds' alarm is set                                  *)
(* db           its database is open                                         *)
(* listens      it still holds the listening socket                          *)
(* registered   the channel's callbacks are                                  *)
(* pty, slave   its ends of the pty are open                                 *)
(* shell, sftp, exec    what was asked for                                   *)
Process(at) == [at |-> at, alarm |-> FALSE, db |-> FALSE, listens |-> FALSE,
                authenticated |-> FALSE, channel |-> FALSE, registered |-> FALSE,
                pty |-> FALSE, slave |-> FALSE, shell |-> FALSE, sftp |-> FALSE, exec |-> "no"]

Init ==
    /\ console = TRUE /\ listener = TRUE /\ restarts = 0
    /\ client = [c \in Conns |-> "away"]
    /\ conn = [c \in Conns |-> Process("none")]
    /\ child = [c \in Conns |-> "none"]
    /\ token = [c \in Conns |-> "none"]
    /\ mosh = [c \in Conns |-> "none"]

At(c, place) == conn[c].at = place
Goes(c, place) == conn' = [conn EXCEPT ![c].at = place]
Becomes(c, rec) == conn' = [conn EXCEPT ![c] = rec]

(* The process ends: everything it held is closed, the connection too.       *)
Exits(c) ==
    /\ Becomes(c, Process("gone"))
    /\ client' = [client EXCEPT ![c] = "gone"]

Server == <<console, listener, restarts>>
Others == <<child, token, mosh>>

ssh_is_connected(c) == client[c] # "gone"

-----------------------------------------------------------------------------
(* The clients, the console's user and the network: nothing makes them go on. *)

Connects(c) ==
    /\ client[c] = "away" /\ listener
    /\ client' = [client EXCEPT ![c] = "waiting"]
    /\ UNCHANGED <<Server, conn, Others>>

(* It closes the connection, or its machine or network is cut off.           *)
Leaves(c) ==
    /\ client[c] \in {"here", "waiting"}
    /\ \E how \in {"gone", "vanished"} : client' = [client EXCEPT ![c] = how]
    /\ UNCHANGED <<Server, conn, Others>>

(* AuthPubkeyCallback, where a key matches; where none does, nothing changes. *)
AuthPubkeyCallback(c) ==
    /\ At(c, "auth") /\ client[c] = "here"
    /\ conn' = [conn EXCEPT ![c].authenticated = TRUE]
    /\ UNCHANGED <<Server, client, Others>>

ChannelOpenCallback(c) ==
    /\ conn[c].at \in {"auth", "serve"} /\ client[c] = "here"
    /\ conn[c].authenticated /\ ~conn[c].channel
    /\ conn' = [conn EXCEPT ![c].channel = TRUE]
    /\ UNCHANGED <<Server, client, Others>>

(* Several requests may be answered in one poll, before the loop looks.      *)
MayAsk(c) == At(c, "serve") /\ client[c] = "here" /\ conn[c].registered

(* A client asks for one terminal at most.                                   *)
PtyRequestCallback(c) ==
    /\ MayAsk(c) /\ ~conn[c].pty
    /\ conn' = [conn EXCEPT ![c].pty = TRUE, ![c].slave = TRUE]
    /\ UNCHANGED <<Server, client, Others>>

MayFork(c) == conn[c].slave /\ ~conn[c].sftp /\ conn[c].exec = "no"

(* The session runs from here on; without a fork the client is refused.      *)
ShellRequestCallback(c) ==
    /\ MayAsk(c) /\ "shell" \in Wants /\ MayFork(c)
    /\ conn' = [conn EXCEPT ![c].shell = TRUE, ![c].slave = FALSE]
    /\ child' = [child EXCEPT ![c] = "running"]
    /\ UNCHANGED <<Server, client, token, mosh>>

NothingStarted(c) == ~conn[c].shell /\ ~conn[c].sftp /\ conn[c].exec = "no"

SubsystemRequestCallback(c) ==
    /\ MayAsk(c) /\ "sftp" \in Wants /\ NothingStarted(c)
    /\ conn' = [conn EXCEPT ![c].sftp = TRUE]
    /\ UNCHANGED <<Server, client, Others>>

ExecRequestCallback(c) ==
    /\ MayAsk(c) /\ NothingStarted(c)
    /\ \E what \in Wants \cap {"command", "scp", "mosh"} : conn' = [conn EXCEPT ![c].exec = what]
    /\ UNCHANGED <<Server, client, Others>>

-----------------------------------------------------------------------------
(* The listener.                                                             *)

(* Someone else's process still listens on the port.                          *)
PortHeld == listener \/ \E c \in Conns : conn[c].listens

(* The console quits and stops its listener, or dies and does not.           *)
StopSshServerProcess ==
    /\ console
    /\ console' = FALSE
    /\ \E stopped \in BOOLEAN : listener' = (listener /\ ~stopped)
    /\ UNCHANGED <<restarts, client, conn, Others>>

(* Started again.  A listener that cannot have the port ends.                *)
StartSshServerProcess ==
    /\ ~console /\ restarts < MaxRestarts
    /\ ~PortHeld
    /\ console' = TRUE /\ listener' = TRUE /\ restarts' = restarts + 1
    /\ UNCHANGED <<client, conn, Others>>

(* It finds within a second that it has another parent.                      *)
ListenerEnds ==
    /\ listener /\ ~console
    /\ listener' = FALSE
    /\ UNCHANGED <<console, restarts, client, conn, Others>>

Accept(c) ==
    /\ listener /\ conn[c].at = "none" /\ client[c] \notin {"away"}
    /\ \/ conn' = [conn EXCEPT ![c] = [Process("forked") EXCEPT !.listens = TRUE]]
          /\ client' = [client EXCEPT ![c] = IF @ = "waiting" THEN "here" ELSE @]
       \/ Exits(c)
    /\ UNCHANGED <<Server, Others>>

(* The backlog goes with the listener.                                       *)
BacklogDropped(c) ==
    /\ ~PortHeld /\ conn[c].at = "none" /\ client[c] # "away"
    /\ Exits(c)
    /\ UNCHANGED <<Server, Others>>

-----------------------------------------------------------------------------
(* HandleConnection.                                                         *)

KeepsListening(c) ==  \* mutant: the listening socket is left open
    conn' = [conn EXCEPT ![c].at = "kex", ![c].alarm = TRUE, ![c].db = TRUE]
SetsAlarmLate(c) ==  \* mutant: no alarm until the key exchange is over
    conn' = [conn EXCEPT ![c].at = "kex", ![c].listens = FALSE, ![c].db = TRUE]
Starts(c) ==
    conn' = [conn EXCEPT ![c].at = "kex", ![c].listens = FALSE, ![c].alarm = TRUE, ![c].db = TRUE]

HandleConnection(c) ==
    /\ At(c, "forked")
    /\ Starts(c)
    /\ UNCHANGED <<Server, client, Others>>

(* Blocking: nothing but the client's answers, the connection's end or the   *)
(* alarm takes it further.  A client that stalls takes no step here.         *)
KeyExchange(c) ==
    /\ At(c, "kex") /\ client[c] = "here"
    /\ Goes(c, "auth")
    /\ UNCHANGED <<Server, client, Others>>

KeyExchangeFails(c) ==
    /\ At(c, "kex") /\ client[c] \in {"here", "gone"}
    /\ Exits(c)
    /\ UNCHANGED <<Server, Others>>

(* 60 seconds after the key exchange at the latest.                           *)
KeepsDatabase(c) ==  \* mutant: its database is not closed before the channel is served
    conn' = [conn EXCEPT ![c].at = "serve", ![c].registered = conn[c].channel]
LeavesAuth(c) ==
    conn' = [conn EXCEPT ![c].at = "serve", ![c].db = FALSE]

AuthEnds(c) ==
    /\ At(c, "auth")
    /\ IF conn[c].authenticated THEN LeavesAuth(c) /\ UNCHANGED client
       ELSE Exits(c)
    /\ UNCHANGED <<Server, Others>>

RegisterCallbacks(c) ==
    /\ At(c, "serve") /\ conn[c].channel /\ ~conn[c].registered
    /\ conn' = [conn EXCEPT ![c].registered = TRUE]
    /\ UNCHANGED <<Server, client, Others>>

StartsRelay(c) ==
    conn' = [conn EXCEPT ![c].at = "relay", ![c].alarm = FALSE]

(* Something was asked for, or the client is gone, or the deadline is over.   *)
ServeEnds(c) ==
    /\ At(c, "serve")
    /\ IF conn[c].sftp \/ conn[c].exec # "no"
       THEN /\ conn' = [conn EXCEPT ![c].at = IF conn[c].sftp THEN "sftp"
                                              ELSE IF conn[c].exec = "mosh" THEN "moshToken"
                                              ELSE "exec",
                                    ![c].alarm = FALSE, ![c].pty = FALSE, ![c].slave = FALSE]
            /\ UNCHANGED client
       ELSE IF conn[c].shell
       THEN StartsRelay(c) /\ UNCHANGED client
       ELSE Exits(c)
    /\ UNCHANGED <<Server, Others>>

AlarmGoesOff(c) ==
    /\ conn[c].alarm
    /\ Exits(c)
    /\ UNCHANGED <<Server, Others>>

(* A client that vanished is found out by TCP within minutes.                 *)
KeepaliveFails(c) ==
    /\ client[c] = "vanished" /\ conn[c].at \notin {"none", "gone"}
    /\ client' = [client EXCEPT ![c] = "gone"]
    /\ UNCHANGED <<Server, conn, Others>>

(* The session's output goes to a client that takes it.                      *)
PtyMasterReadableCallback(c) ==
    /\ At(c, "relay") /\ child[c] = "drawing" /\ client[c] = "here"
    /\ child' = [child EXCEPT ![c] = "running"]
    /\ UNCHANGED <<Server, client, conn, token, mosh>>

StopsBeforeClosing(c) == Goes(c, "stop")  \* mutant: the child is stopped with the pty open
RelayOver(c) == Goes(c, "closePty")

SeesTheEnd(c) == child[c] = "ended" \/ ~ssh_is_connected(c)

RelayEnds(c) ==
    /\ At(c, "relay") /\ SeesTheEnd(c)
    /\ RelayOver(c)
    /\ UNCHANGED <<Server, client, Others>>

ClosePty(c) ==
    /\ At(c, "closePty")
    /\ conn' = [conn EXCEPT ![c].at = "stop", ![c].pty = FALSE]
    /\ UNCHANGED <<Server, client, Others>>

(* StopSessionChild: asks, waits two seconds, insists, and waits.            *)
StopSessionChild(c) ==
    /\ \/ At(c, "stop") /\ Goes(c, IF child[c] = "ended" THEN "closing" ELSE "termed")
       \/ At(c, "termed") /\ Goes(c, IF child[c] = "ended" THEN "closing" ELSE "killed")
       \/ At(c, "killed") /\ child[c] = "ended" /\ Goes(c, "closing")
    /\ UNCHANGED <<Server, client, Others>>

Disconnect(c) ==
    /\ At(c, "closing")
    /\ Exits(c)
    /\ UNCHANGED <<Server, Others>>

(* SFTP and scp go on until the client is done or gone.                      *)
ServesFiles(c) == At(c, "sftp") \/ (At(c, "exec") /\ conn[c].exec = "scp")

RunSftpSession(c) ==
    /\ ServesFiles(c) /\ client[c] \in {"here", "gone"}
    /\ Goes(c, "ending")
    /\ UNCHANGED <<Server, client, Others>>

(* A command is answered whatever becomes of its client.                     *)
RunExecCommand(c) ==
    /\ At(c, "exec") /\ conn[c].exec = "command"
    /\ Goes(c, "ending")
    /\ UNCHANGED <<Server, client, Others>>

(* Gives the client five seconds to close the connection.                    *)
EndChannel(c) ==
    /\ At(c, "ending")
    /\ Exits(c)
    /\ UNCHANGED <<Server, Others>>

-----------------------------------------------------------------------------
(* The session's process.                                                    *)

(* Its user quits; or it draws more than the pty holds, and waits.            *)
SessionGoesOn(c) ==
    /\ child[c] = "running"
    /\ \E next \in {"ended", "drawing"} : child' = [child EXCEPT ![c] = next]
    /\ UNCHANGED <<Server, client, conn, token, mosh>>

(* A signal, or its terminal's hang-up, ends it: not while it waits on a pty *)
(* somebody else has open.                                                   *)
SessionStops(c) ==
    /\ child[c] \in {"running", "drawing"}
    /\ ~conn[c].pty \/ (child[c] = "running" /\ conn[c].at \in {"termed", "killed"})
    /\ child' = [child EXCEPT ![c] = "ended"]
    /\ UNCHANGED <<Server, client, conn, token, mosh>>

-----------------------------------------------------------------------------
(* Mosh: a token is a file that is opened, written, too old or removed.      *)

Unusable(t) == t \in {"opened", "old"}

RemoveStaleTokens(c) ==
    /\ At(c, "moshToken")
    /\ token' = [d \in Conns |-> IF Unusable(token[d]) THEN "removed" ELSE token[d]]
    /\ Goes(c, "moshOpen")
    /\ UNCHANGED <<Server, client, child, mosh>>

CreateMoshToken(c) ==
    /\ At(c, "moshOpen")
    /\ \/ token' = [token EXCEPT ![c] = "opened"] /\ Goes(c, "moshWrite")
       \/ Goes(c, "ending") /\ UNCHANGED token
    /\ UNCHANGED <<Server, client, child, mosh>>

(* The stream is written when it is closed, to a file that may be removed.    *)
WriteMoshToken(c) ==
    /\ At(c, "moshWrite")
    /\ token' = [token EXCEPT ![c] = IF @ = "opened" THEN "written" ELSE @]
    /\ Goes(c, "moshSpawn")
    /\ UNCHANGED <<Server, client, child, mosh>>

TokenAges(c) ==
    /\ token[c] = "written"
    /\ token' = [token EXCEPT ![c] = "old"]
    /\ UNCHANGED <<Server, client, conn, child, mosh>>

SpawnMoshServer(c) ==
    /\ At(c, "moshSpawn")
    /\ \/ mosh' = [mosh EXCEPT ![c] = "starting"] /\ Goes(c, "moshRelay")
       \/ Goes(c, "ending") /\ UNCHANGED mosh
    /\ UNCHANGED <<Server, client, child, token>>

(* Its first half has printed its line, left the other running and exited;   *)
(* or it could not start.  It may also hang.                                 *)
MoshServerDetaches(c) ==
    /\ mosh[c] = "starting"
    /\ \E next \in {"detached", "ended"} : mosh' = [mosh EXCEPT ![c] = next]
    /\ UNCHANGED <<Server, client, conn, child, token>>

(* Its pipes are closed, or quiet since it exited, or 20 seconds are over.    *)
RunMoshServerCommand(c) ==
    /\ At(c, "moshRelay")
    /\ Goes(c, "ending")
    /\ UNCHANGED <<Server, client, Others>>

(* QuickLogger --mosh-session, under mosh-server: the token is read, and     *)
(* then removed.                                                             *)
RunMoshSession(c) ==
    /\ mosh[c] = "detached"
    /\ mosh' = [mosh EXCEPT ![c] = CASE token[c] = "written" -> "valid"
                                     [] token[c] = "removed" -> "refused"
                                     [] OTHER -> "invalid"]
    /\ UNCHANGED <<Server, client, conn, child, token>>

ConsumeMoshToken(c) ==
    /\ mosh[c] \in {"valid", "invalid"}
    /\ mosh' = [mosh EXCEPT ![c] = IF @ = "valid" /\ token[c] # "removed" THEN "session"
                                   ELSE "refused"]
    /\ token' = [token EXCEPT ![c] = "removed"]
    /\ UNCHANGED <<Server, client, conn, child>>

MoshSessionEnds(c) ==
    /\ mosh[c] \in {"session", "refused"}
    /\ mosh' = [mosh EXCEPT ![c] = "ended"]
    /\ UNCHANGED <<Server, client, conn, child, token>>

-----------------------------------------------------------------------------
(* What the server's own processes do by themselves.                         *)
ServerStep(c) ==
    \/ HandleConnection(c) \/ AuthEnds(c) \/ RegisterCallbacks(c)
    \/ ServeEnds(c) \/ RelayEnds(c) \/ ClosePty(c) \/ StopSessionChild(c) \/ Disconnect(c)
    \/ RunExecCommand(c) \/ EndChannel(c)
    \/ RemoveStaleTokens(c) \/ CreateMoshToken(c) \/ WriteMoshToken(c) \/ SpawnMoshServer(c)
    \/ RunMoshServerCommand(c)
    \/ (client[c] = "gone" /\ (KeyExchangeFails(c) \/ RunSftpSession(c)))

ClientStep(c) ==
    \/ Connects(c) \/ Leaves(c) \/ KeyExchange(c) \/ AuthPubkeyCallback(c)
    \/ ChannelOpenCallback(c) \/ PtyRequestCallback(c) \/ ShellRequestCallback(c)
    \/ SubsystemRequestCallback(c) \/ ExecRequestCallback(c)
    \/ (client[c] = "here" /\ (KeyExchangeFails(c) \/ RunSftpSession(c)))

MoshStep(c) ==
    \/ TokenAges(c) \/ MoshServerDetaches(c) \/ RunMoshSession(c) \/ ConsumeMoshToken(c)
    \/ MoshSessionEnds(c)

Next ==
    \/ StopSshServerProcess \/ StartSshServerProcess \/ ListenerEnds
    \/ \E c \in Conns :
        \/ Accept(c) \/ BacklogDropped(c) \/ AlarmGoesOff(c) \/ KeepaliveFails(c)
        \/ PtyMasterReadableCallback(c) \/ SessionGoesOn(c) \/ SessionStops(c)
        \/ ServerStep(c) \/ ClientStep(c) \/ MoshStep(c)

(* The server's processes, the kernel's alarms, keepalive and signals, and    *)
(* the listener's look at its parent go on; clients, users and mosh need not.  *)
Fairness ==
    /\ WF_vars(ListenerEnds)
    /\ \A c \in Conns :
        /\ WF_vars(Accept(c)) /\ WF_vars(BacklogDropped(c))
        /\ WF_vars(ServerStep(c)) /\ WF_vars(AlarmGoesOff(c)) /\ WF_vars(KeepaliveFails(c))
        /\ WF_vars(PtyMasterReadableCallback(c)) /\ WF_vars(SessionStops(c))

Spec == Init /\ [][Next]_vars /\ Fairness

-----------------------------------------------------------------------------
(* The alarm is set at most until something was asked for, and never          *)
(* while a session, a transfer or a command runs.                            *)
TypeOK ==
    /\ console \in BOOLEAN /\ listener \in BOOLEAN /\ restarts \in 0..MaxRestarts
    /\ client \in [Conns -> Clients]
    /\ \A c \in Conns : /\ conn[c].at \in Places
                        /\ conn[c].exec \in {"no", "command", "scp", "mosh"}
                        /\ conn[c].alarm => conn[c].at \in {"kex", "auth", "serve"}
                        /\ conn[c].slave => conn[c].pty
    /\ child \in [Conns -> {"none", "running", "drawing", "ended"}]
    /\ token \in [Conns -> {"none", "opened", "written", "old", "removed"}]
    /\ mosh \in [Conns -> {"none", "starting", "detached", "valid", "invalid", "session",
                           "refused", "ended"}]

Alive(c) == child[c] \in {"running", "drawing"}

(* The fork rule: a session's process is never forked by one that has the     *)
(* database open.                                                            *)
ForkRule == [][\A c \in Conns : child[c] = "none" /\ child'[c] = "running" => ~conn[c].db]_vars

(* A channel is given to one of a shell, SFTP and a command, even if several  *)
(* are asked for in one poll; and no session runs on one that has no pty to   *)
(* itself and nobody who will stop it.                                       *)
OneUseOfAChannel ==
    \A c \in Conns :
        /\ Cardinality({u \in {"shell", "sftp", "exec"} :
                        CASE u = "shell" -> conn[c].shell
                          [] u = "sftp" -> conn[c].sftp
                          [] OTHER -> conn[c].exec # "no"}) <= 1
        /\ conn[c].at \in {"sftp", "exec", "moshRelay"} => ~Alive(c)

(* Once a client is gone, or its process was ended, its session ends too, and *)
(* the process with it: no orphan is left, whatever the session was doing.    *)
NoOrphans ==
    \A c \in Conns :
        client[c] \in {"vanished", "gone"} /\ conn[c].at # "none"
            ~> conn[c].at = "gone" /\ ~Alive(c)

(* A connection that stalls, in the key exchange or later, does not hold its  *)
(* process for ever: it comes to be used or is ended.                         *)
NoneStalls ==
    \A c \in Conns : conn[c].at \in {"forked", "kex", "auth", "serve"}
        ~> conn[c].at \notin {"forked", "kex", "auth", "serve"}

(* When the listener has gone its port is free again, whatever connections    *)
(* are still open: it can be started anew.                                    *)
PortFreed == ~listener ~> ~PortHeld \/ listener

=============================================================================
