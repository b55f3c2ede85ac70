------------------------------ MODULE Zmodem ------------------------------
(***************************************************************************)
(* QuickLogger's ZMODEM: its sender and its receiver, one at each end of a   *)
(* line, as a batch of files goes across.  The line is two queues of headers *)
(* and data subpackets.  A checksum tells a garbled one, but not where it     *)
(* ended: noise in a header's first bytes hides it, and noise in a            *)
(* subpacket's last ones makes it run on into what follows.                  *)
(*                                                                         *)
(* A block is <<file, number>>; files are numbered, and told by their blocks. *)
(***************************************************************************)
EXTENDS Integers, Sequences, FiniteSets, SequencesExt

CONSTANTS
    Sizes,       \* the batch: how many blocks each file has (Seq(Nat))
    TooBig,      \* the files over the receiver's max_file_bytes
    LooksBad,    \* blocks that, skipped, read as a garbled header: a '*' and
                 \* then an escaped byte
    MaxFaults,   \* bound: how much goes wrong
    MaxAsks,     \* the times an end asks again before its time is up
    MaxLine      \* what the line holds on its way to the receiver

VARIABLES
    sender,      \* Sender: where it is, the file, its position in it
    receiver,    \* Receiver: where it is, the file it fills, and whether the
                 \* checksum of what it reads can still be right
    received,    \* the files it has
    forth, back, \* the line to the receiver, and back
    faults,      \* how much has gone wrong
    harmed       \* history: anything besides garbled file data

zmodemVars == <<sender, receiver, received, forth, back, faults, harmed>>

Files == DOMAIN Sizes
Whole(f) == [file |-> f, blocks |-> [k \in 1..Sizes[f] |-> <<f, k>>]]

ASSUME ZmodemAssumption ==
    /\ Sizes \in Seq(Nat) /\ TooBig \subseteq Files
    /\ MaxFaults \in Nat /\ MaxAsks \in Nat /\ MaxLine \in Nat \ {0}

Header(type, position) == [t |-> type, position |-> position]
\* A file information's one "block" is the file's number.
Subpacket(what, blocks, last) == [t |-> what, blocks |-> blocks, last |-> last]
IsSubpacket(e) == e.t \in {"info", "data", "bad data", "runs on"}
Garbled == [t |-> "bad header"]
Hidden == [t |-> "noise"]  \* a header whose first bytes are garbled
Cancel == [t |-> "five ZDLEs"]

ZmodemInit ==
    /\ sender = [at |-> "start", file |-> 0, position |-> 0, fresh |-> TRUE, asks |-> 0]
    /\ receiver = [at |-> "off", file |-> 0, blocks |-> << >>, right |-> TRUE, asks |-> 0]
    /\ received = << >> /\ back = << >> /\ forth = <<Header("ZRQINIT", 0)>>
    /\ faults = 0 /\ harmed = FALSE

-----------------------------------------------------------------------------
(* The sender.                                                              *)

Ended == {"ok", "failed"}
Sends(headers) == Len(forth) + Len(headers) <= MaxLine /\ forth' = forth \o headers
ReceiverOnly == UNCHANGED <<receiver, received, faults, harmed>>

(* Run: the next file's offer, or Finish.                                    *)
NextFile(s) == [s EXCEPT !.at = IF s.file = Len(Sizes) THEN "fin" ELSE "offer", !.file = @ + 1]

SenderOffers ==
    /\ sender.at = "offer"
    /\ Sends(<<Header("ZFILE", 0), Subpacket("info", <<sender.file>>, TRUE)>>)
    /\ sender' = [sender EXCEPT !.at = "offered"]
    /\ UNCHANGED back /\ ReceiverOnly

(* SendData: ZDATA when it starts and when it goes back; a block; ZEOF.       *)
SenderSendsBlock ==
    LET size == Sizes[sender.file]
        count == IF sender.position = size THEN 0 ELSE 1
        last == sender.position + count >= size
    IN  /\ sender.at = "data"
        /\ Sends((IF sender.fresh THEN <<Header("ZDATA", sender.position)>> ELSE << >>)
                 \o <<Subpacket("data", [k \in 1..count |-> <<sender.file, sender.position + 1>>], last)>>
                 \o (IF last THEN <<Header("ZEOF", size)>> ELSE << >>))
        /\ sender' = [sender EXCEPT !.at = IF last THEN "eof" ELSE "check", !.fresh = FALSE,
                                    !.position = @ + count]
        /\ UNCHANGED back /\ ReceiverOnly

GoesBackTo(p) == [sender EXCEPT !.at = "data", !.position = p, !.fresh = TRUE]
InFile(p) == IF p <= Sizes[sender.file] THEN p ELSE Sizes[sender.file]

(* CheckForRestart looks without waiting, and then sees a header, or none yet, *)
(* or no more than the bytes after the last one.                             *)
SenderSeesNothing ==
    /\ sender.at = "check" /\ sender' = [sender EXCEPT !.at = "data"]
    /\ UNCHANGED <<forth, back>> /\ ReceiverOnly
SenderSeesHeader ==
    /\ sender.at = "check" /\ back # << >> /\ back' = Tail(back)
    /\ sender' = IF Head(back).t = "ZRPOS" THEN GoesBackTo(Head(back).position)
                 ELSE [sender EXCEPT !.at = "data"]
    /\ UNCHANGED forth /\ ReceiverOnly

(* Await, and what Start, SendFile, SendData and Finish make of the answer.   *)
SenderAwaits ==
    LET answer == Head(back) IN
    /\ sender.at \in {"start", "offered", "eof", "finish"} /\ back # << >> /\ back' = Tail(back)
    /\ sender' = CASE sender.at \in {"start", "eof"} /\ answer.t = "ZRINIT" -> NextFile(sender)
                   [] sender.at = "offered" /\ answer.t = "ZSKIP" -> NextFile(sender)
                   [] sender.at \in {"offered", "eof"} /\ answer.t = "ZRPOS" ->
                        GoesBackTo(InFile(answer.position))
                   [] sender.at = "finish" /\ answer.t = "ZFIN" -> [sender EXCEPT !.at = "ok"]
                   [] OTHER -> sender
    /\ UNCHANGED forth /\ ReceiverOnly

SenderFinishes ==
    /\ sender.at = "fin" /\ Sends(<<Header("ZFIN", 0)>>)
    /\ sender' = [sender EXCEPT !.at = "finish"]
    /\ UNCHANGED back /\ ReceiverOnly

MayAskAgain == sender.at = "start" /\ sender.asks < MaxAsks
SenderAsks ==
    /\ MayAskAgain /\ back = << >>
    /\ Sends(<<Header("ZRQINIT", 0)>>)
    /\ sender' = [sender EXCEPT !.asks = @ + 1]
    /\ UNCHANGED back /\ ReceiverOnly

-----------------------------------------------------------------------------
(* The receiver.                                                            *)

SenderOnly == UNCHANGED <<sender, faults, harmed>>
Replies(headers) == back' = back \o headers
Here == Len(receiver.blocks)
AskFromHere == <<Header("ZRPOS", Here)>>
Ready == Header("ZRINIT", 0)
BetweenFiles == [at |-> "ready", file |-> 0, blocks |-> << >>, right |-> TRUE, asks |-> 0]

ReceiverStarts ==
    /\ receiver.at = "off" /\ receiver' = BetweenFiles /\ Replies(<<Ready>>)
    /\ UNCHANGED <<received, forth>> /\ SenderOnly

(* ReadHeader skips what comes before a header, a cancel between headers too; *)
(* or takes some of it for a garbled header.                                 *)
SkipsIt(e) == IsSubpacket(e) \/ e \in {Hidden, Cancel}
TakenForHeader(e) ==
    e = Garbled \/ (IsSubpacket(e) /\ e.t # "info" /\ \E k \in DOMAIN e.blocks : e.blocks[k] \in LooksBad)

ReceiverSkips ==
    /\ receiver.at \in {"ready", "file"} /\ forth # << >> /\ SkipsIt(Head(forth))
    /\ forth' = Tail(forth) /\ UNCHANGED <<receiver, received, back>> /\ SenderOnly

(* Run asks for the header again, ReceiveFile for the file's data.            *)
ReceiverSeesBadHeader ==
    /\ receiver.at \in {"ready", "file"} /\ forth # << >> /\ TakenForHeader(Head(forth))
    /\ forth' = Tail(forth)
    /\ Replies(IF receiver.at = "file" THEN AskFromHere ELSE <<Header("ZNAK", 0)>>)
    /\ UNCHANGED <<receiver, received>> /\ SenderOnly

IsHeader(e) == ~SkipsIt(e) /\ e # Garbled

(* Run: a header between files.                                              *)
ReceiverBetweenFiles ==
    LET header == Head(forth) IN
    /\ receiver.at = "ready" /\ forth # << >> /\ IsHeader(header) /\ forth' = Tail(forth)
    /\ CASE header.t = "ZRQINIT" -> receiver' = BetweenFiles /\ Replies(<<Ready>>)
         [] header.t = "ZFILE" -> receiver' = [BetweenFiles EXCEPT !.at = "offer"] /\ UNCHANGED back
         [] header.t = "ZFIN" -> receiver' = [BetweenFiles EXCEPT !.at = "ok"] /\ Replies(<<Header("ZFIN", 0)>>)
         [] OTHER -> receiver' = BetweenFiles /\ UNCHANGED back
    /\ UNCHANGED received /\ SenderOnly

TakesDataAnywhere(header) ==  \* mutant: data's position in the file is not looked at
    header.t = "ZEOF" /\ header.position # Here
OutOfStep(header) == header.t \in {"ZDATA", "ZEOF"} /\ header.position # Here

(* ReceiveFile: a header within a file.                                      *)
ReceiverWithinFile ==
    LET header == Head(forth) IN
    /\ receiver.at = "file" /\ forth # << >> /\ IsHeader(header) /\ forth' = Tail(forth)
    /\ CASE OutOfStep(header) -> Replies(AskFromHere) /\ UNCHANGED <<receiver, received>>
         [] header.t = "ZDATA" /\ ~OutOfStep(header) ->
              receiver' = [receiver EXCEPT !.at = "data"] /\ UNCHANGED <<received, back>>
         [] header.t = "ZEOF" /\ ~OutOfStep(header) ->
              /\ received' = Append(received, [file |-> receiver.file, blocks |-> receiver.blocks])
              /\ receiver' = BetweenFiles /\ Replies(<<Ready>>)
         [] header.t = "ZFILE" ->
              receiver' = [receiver EXCEPT !.at = "offered again"] /\ UNCHANGED <<received, back>>
         [] OTHER -> UNCHANGED <<receiver, received, back>>
    /\ SenderOnly

(* ReadSubpacket takes everything up to the next end of a subpacket for its   *)
(* data, headers included: its checksum is right only if that was nothing.    *)
Subpackets == {"offer", "offered again", "data"}
EndsSubpacket(e) == e = Cancel \/ (IsSubpacket(e) /\ e.t # "runs on")
ReceiverTakesIn ==
    /\ receiver.at \in Subpackets /\ forth # << >> /\ ~EndsSubpacket(Head(forth))
    /\ forth' = Tail(forth) /\ receiver' = [receiver EXCEPT !.right = FALSE]
    /\ UNCHANGED <<received, back>> /\ SenderOnly

TrustsChecksum(e) == e.t \in {"data", "bad data"}  \* mutant: garbled data is kept
HasData(e) == e.t = "data"

(* ReceiveFile and ReceiveData: what a subpacket says.                        *)
Then(at) == receiver' = [receiver EXCEPT !.at = at, !.right = TRUE]
ReceiverReadsSubpacket ==
    LET subpacket == Head(forth)
        offered == receiver.right /\ subpacket.t = "info"
        filled == receiver.right /\ HasData(subpacket)
    IN
    /\ receiver.at \in Subpackets /\ forth # << >> /\ EndsSubpacket(Head(forth)) /\ forth' = Tail(forth)
    /\ UNCHANGED received /\ SenderOnly
    /\ CASE receiver.at = "offered again" -> Then("file") /\ Replies(AskFromHere)
         [] receiver.at = "offer" /\ ~offered -> Then("ready") /\ Replies(<<Header("ZNAK", 0)>>)
         [] receiver.at = "offer" /\ offered /\ subpacket.blocks[1] \in TooBig ->
              Then("ready") /\ Replies(<<Header("ZSKIP", 0)>>)
         [] receiver.at = "offer" /\ offered /\ subpacket.blocks[1] \notin TooBig ->
              /\ receiver' = [BetweenFiles EXCEPT !.at = "file", !.file = subpacket.blocks[1]]
              /\ Replies(<<Header("ZRPOS", 0)>>)
         [] receiver.at = "data" /\ subpacket = Cancel -> Then("failed") /\ UNCHANGED back
         [] receiver.at = "data" /\ filled ->
              /\ receiver' = [receiver EXCEPT !.blocks = @ \o subpacket.blocks,
                                              !.at = IF subpacket.last THEN "file" ELSE "data"]
              /\ UNCHANGED back
         [] receiver.at = "data" /\ subpacket # Cancel /\ ~filled -> Then("file") /\ Replies(AskFromHere)

ReceiverAsks ==
    /\ receiver.at = "ready" /\ forth = << >> /\ receiver.asks < MaxAsks
    /\ receiver' = [receiver EXCEPT !.asks = @ + 1] /\ Replies(<<Ready>>)
    /\ UNCHANGED <<received, forth>> /\ SenderOnly

(* A receiver that has ended leaves the rest to its terminal.                 *)
TerminalShowsIt ==
    /\ receiver.at \in Ended /\ forth # << >> /\ forth' = << >>
    /\ UNCHANGED <<receiver, received, back>> /\ SenderOnly

-----------------------------------------------------------------------------
(* Time.  The limits are long for a line: an end gives up on one that is      *)
(* still working only as a fault.                                           *)

SenderWaits == sender.at \in Ended
               \/ (sender.at \in {"start", "offered", "eof", "finish"} /\ back = << >>
                     /\ ~MayAskAgain)
ReceiverWaits == receiver.at \in Ended
                 \/ (receiver.at # "off" /\ forth = << >>
                       /\ ~(receiver.at = "ready" /\ receiver.asks < MaxAsks))

(* Await and Start fail; Finish has sent everything all the same.             *)
SenderGivesUp ==
    sender' = [sender EXCEPT !.at = IF sender.at = "finish" THEN "ok" ELSE "failed"]
(* ReceiveFile and ReceiveData fail, and so does Run; a file information that *)
(* does not end is asked for again.                                         *)
ReceiverGivesUp ==
    IF receiver.at \in {"offer", "offered again"}
    THEN /\ Then(IF receiver.at = "offer" THEN "ready" ELSE "file")
         /\ Replies(IF receiver.at = "offer" THEN <<Header("ZNAK", 0)>> ELSE AskFromHere)
    ELSE Then("failed") /\ UNCHANGED back

SenderTimesOut ==
    /\ sender.at \notin Ended /\ SenderWaits /\ ReceiverWaits /\ SenderGivesUp
    /\ UNCHANGED <<forth, back>> /\ ReceiverOnly
ReceiverTimesOut ==
    /\ receiver.at \notin Ended /\ SenderWaits /\ ReceiverWaits /\ ReceiverGivesUp
    /\ UNCHANGED <<received, forth>> /\ SenderOnly

(* What goes wrong: noise, an end that is given up on too early, and a cancel *)
(* at either end, which sends a run of ZDLEs.                                *)
Fault(worse) == faults < MaxFaults /\ faults' = faults + 1 /\ harmed' = (harmed \/ worse)

Garble(blocks) == [k \in DOMAIN blocks |-> <<blocks[k][1], 0>>]
GarblesData ==
    /\ \E n \in DOMAIN forth :
         /\ forth[n].t = "data" /\ forth' = [forth EXCEPT ![n] = Subpacket("bad data", Garble(forth[n].blocks), forth[n].last)]
    /\ Fault(FALSE) /\ UNCHANGED <<sender, receiver, received, back>>
RunsOn ==
    /\ \E n \in DOMAIN forth :
         forth[n].t = "data" /\ forth' = [forth EXCEPT ![n] = Subpacket("runs on", Garble(forth[n].blocks), forth[n].last)]
    /\ Fault(TRUE) /\ UNCHANGED <<sender, receiver, received, back>>
GarblesInfo ==
    /\ \E n \in DOMAIN forth :
         forth[n].t = "info" /\ forth' \in {[forth EXCEPT ![n] = Subpacket(t, << >>, TRUE)] : t \in {"bad data", "runs on"}}
    /\ Fault(TRUE) /\ UNCHANGED <<sender, receiver, received, back>>
GarblesHeader ==
    /\ \/ \E n \in DOMAIN forth : /\ ~IsSubpacket(forth[n]) /\ forth' \in {[forth EXCEPT ![n] = noise] : noise \in {Garbled, Hidden}}
                               /\ UNCHANGED back
       \/ \E n \in DOMAIN back : back' = RemoveAt(back, n) /\ UNCHANGED forth
    /\ Fault(TRUE) /\ UNCHANGED <<sender, receiver, received>>
TooEarly ==
    /\ \/ /\ sender.at \in {"start", "offered", "eof", "finish"} /\ back = << >>
          /\ SenderGivesUp /\ UNCHANGED <<receiver, back>>
       \/ /\ receiver.at \notin Ended \cup {"off"} /\ forth = << >> /\ ReceiverGivesUp /\ UNCHANGED sender
    /\ Fault(TRUE) /\ UNCHANGED <<received, forth>>
Cancelled ==
    /\ \/ /\ sender.at \notin Ended /\ sender' = [sender EXCEPT !.at = "failed"]
          /\ forth' = Append(forth, Cancel) /\ UNCHANGED <<receiver, back>>
       \/ /\ receiver.at \notin Ended /\ receiver' = [receiver EXCEPT !.at = "failed"]
          /\ back' = Append(back, Cancel) /\ UNCHANGED <<sender, forth>>
    /\ Fault(TRUE) /\ UNCHANGED received

SenderSteps == SenderOffers \/ SenderSendsBlock \/ SenderSeesNothing \/ SenderSeesHeader \/ SenderAwaits
               \/ SenderFinishes \/ SenderAsks
ReceiverSteps == ReceiverStarts \/ ReceiverSkips \/ ReceiverSeesBadHeader \/ ReceiverBetweenFiles
                 \/ ReceiverWithinFile \/ ReceiverTakesIn \/ ReceiverReadsSubpacket \/ ReceiverAsks
                 \/ TerminalShowsIt
Faults == GarblesData \/ RunsOn \/ GarblesInfo \/ GarblesHeader \/ TooEarly \/ Cancelled

ZmodemNext == SenderSteps \/ ReceiverSteps \/ SenderTimesOut \/ ReceiverTimesOut \/ Faults

Fairness ==
    /\ WF_zmodemVars(SenderSteps) /\ WF_zmodemVars(ReceiverSteps)
    /\ WF_zmodemVars(SenderTimesOut) /\ WF_zmodemVars(ReceiverTimesOut)

ZmodemSpec == ZmodemInit /\ [][ZmodemNext]_zmodemVars /\ Fairness

-----------------------------------------------------------------------------
(* Every part of the state has its type.                                     *)
ZmodemTypeOK ==
    /\ sender.at \in Ended \cup {"start", "offer", "offered", "data", "check", "eof", "fin", "finish"}
    /\ sender.file \in 0..Len(Sizes) + 1 /\ sender.asks \in 0..MaxAsks
    /\ receiver.at \in Ended \cup Subpackets \cup {"off", "ready", "file"}
    /\ receiver.file \in Files \cup {0} /\ receiver.asks \in 0..MaxAsks
    /\ receiver.at \in {"file", "data", "offered again"} => receiver.file # 0
    /\ Len(forth) <= MaxLine + 1

(* The batch as FileTransfer has it: the files that are not refused.          *)
Taken == CHOOSE s \in SeqOf(Files \ TooBig, Len(Sizes)) :
             /\ \A f \in Files \ TooBig : \E n \in DOMAIN s : s[n] = f
             /\ \A m, n \in DOMAIN s : m < n => s[m] < s[n]
Outcome(at) == IF at \in Ended THEN at ELSE "going"
Transfer == INSTANCE FileTransfer WITH
    Batch <- [n \in DOMAIN Taken |-> Whole(Taken[n])], arrived <- received,
    sending <- Outcome(sender.at), receiving <- Outcome(receiver.at)

(* Whatever goes wrong, files arrive whole, in order and once, an end that     *)
(* succeeds has all of them across, and both ends come to an end.            *)
TransfersFiles == Transfer!Spec

(* Garbled file data is put right: with nothing worse, all of it arrives and   *)
(* both ends say so (ReceiveData, CheckForRestart).                         *)
Recovers ==
    <>(harmed \/ (sender.at = "ok" /\ receiver.at = "ok" /\ Len(received) = Len(Taken)))

=============================================================================
