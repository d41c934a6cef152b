----------------------------- MODULE WebRtcCall -----------------------------
(* The call that scripts/test_ports/vcpkg-ci-webrtc/project/main.cc makes    *)
(* between two peers of one process.  Four parties run at once:              *)
(*   - main builds the two peers, negotiates, waits for frames and unwinds;  *)
(*   - the producer thread of SyntheticVideoSource broadcasts frames to the  *)
(*     sinks that are registered;                                            *)
(*   - the signaling thread of WebRTC answers main's requests and reports    *)
(*     ICE candidates, which the observer hands to the other peer;           *)
(*   - WebRTC's media threads add and remove the encoders that are the       *)
(*     source's sinks, carry frames, and call the remote sink.               *)
(* A callback of a PeerConnection may come until the connection is closed.   *)
EXTENDS Naturals

CONSTANTS
  Encoders,      \* sinks that WebRTC may register with the source
  Candidates,    \* the ICE candidates that a peer gathers
  TargetFrames,  \* frames that the remote sink waits for
  MaxFrames,     \* bound: frames that the remote sink counts
  MaxWire        \* bound: frames on the way to the callee

ASSUME BoundAssumption ==
  /\ TargetFrames \in Nat \ {0} /\ MaxFrames \in Nat /\ MaxWire \in Nat
  /\ TargetFrames <= MaxFrames

Peers == {"caller", "callee"}
Other(p) == IF p = "caller" THEN "callee" ELSE "caller"

(* What Negotiate asks for, in its order. *)
Request(op, p) == [op |-> op, peer |-> p]
Negotiation ==
  << Request("create", "caller"), Request("setLocal", "caller"),
     Request("setRemote", "callee"), Request("create", "callee"),
     Request("setLocal", "callee"), Request("setRemote", "caller") >>
Negotiated == 7

VARIABLES
  pc,        \* where main is
  status,    \* what main returns: "none" until it does
  step,      \* the request of Negotiation that comes next
  reply,     \* the observer of that request: "none", "waiting", "ok", "failed"
  objects,   \* what main owns and has not destroyed
  conn,      \* the PeerConnection of a peer: "none", "open", "closed"
  local,     \* peers whose local description is set
  remote,    \* peers whose remote description is set
  gathered,  \* candidates that a peer has reported
  heard,     \* candidates of the other peer that a peer has accepted
  producer,  \* the producer thread: "none", "asleep", "sending", "ended"
  stop,      \* stop_
  entries,   \* sinks_: how many entries an encoder has
  copy,      \* sinks_copy: the calls that are left of this broadcast
  calls,     \* history: calls an encoder had in this broadcast
  late,      \* history: calls an encoder had since it was removed
  wire,      \* frames on the way
  attached,  \* the remote sink is a sink of the callee's track
  count,     \* frame_count_
  done,      \* done_ of FrameCounterSink
  fault      \* something was used after its end, or before its beginning

mainVars     == <<pc, status, step, objects, stop>>
signalVars   == <<local, remote, gathered, heard>>
producerVars == <<producer, copy, calls>>
sinkVars     == <<count, done>>
vars == <<mainVars, reply, conn, signalVars, producerVars, entries, late, wire,
          attached, sinkVars, fault>>

Init ==
  /\ pc = "ssl" /\ status = "none" /\ step = 1 /\ reply = "none"
  /\ objects = {} /\ conn = [p \in Peers |-> "none"]
  /\ local = {} /\ remote = {}
  /\ gathered = [p \in Peers |-> {}] /\ heard = [p \in Peers |-> {}]
  /\ producer = "none" /\ stop = FALSE
  /\ entries = [s \in Encoders |-> 0] /\ copy = [s \in Encoders |-> 0]
  /\ calls = [s \in Encoders |-> 0] /\ late = [s \in Encoders |-> 0]
  /\ wire = 0 /\ attached = FALSE /\ count = 0 /\ done = FALSE /\ fault = FALSE

(*--------------------------------- main ----------------------------------*)
Go(to) == pc' = to /\ UNCHANGED status

(* A return destroys what was built so far: nothing, the threads, or all. *)
Return(code, unwind) == pc' = unwind /\ status' = code

InitializeSSL ==
  /\ pc = "ssl"
  /\ \/ Go("threads") /\ objects' = {"ssl"}
     \/ Return("1", "returned") /\ UNCHANGED objects
  /\ UNCHANGED <<step, stop, reply, conn, signalVars, producerVars, entries, late,
                 wire, attached, sinkVars, fault>>

StartThreads ==
  /\ pc = "threads"
  /\ objects' = objects \union {"threads"}
  /\ Go("factory") \/ Return("1", "dropThreads")
  /\ UNCHANGED <<step, stop, reply, conn, signalVars, producerVars, entries, late,
                 wire, attached, sinkVars, fault>>

(* The factory, then the sink, the peers and their cleanup. *)
CreateFactory ==
  /\ pc = "factory"
  /\ \/ Go("initialize") /\ objects' = objects \union Peers \union {"sink"}
     \/ Return("1", "dropThreads") /\ UNCHANGED objects
  /\ UNCHANGED <<step, stop, reply, conn, signalVars, producerVars, entries, late,
                 wire, attached, sinkVars, fault>>

(* caller.Initialize, then callee.Initialize. *)
Initialize(p) ==
  /\ pc = "initialize" /\ conn[p] = "none"
  /\ p = "callee" => conn["caller"] = "open"
  /\ \/ /\ conn' = [conn EXCEPT ![p] = "open"]
        /\ Go(IF p = "callee" THEN "addTrack" ELSE "initialize")
     \/ Return("1", "closeCaller") /\ UNCHANGED conn
  /\ UNCHANGED <<step, objects, stop, reply, signalVars, producerVars, entries, late,
                 wire, attached, sinkVars, fault>>

(* The source starts its producer before AddTrack may fail. *)
AddSyntheticTrack ==
  /\ pc = "addTrack"
  /\ objects' = objects \union {"source"} /\ producer' = "asleep"
  /\ Go("request") \/ Return("1", "closeCaller")
  /\ UNCHANGED <<step, stop, reply, conn, signalVars, copy, calls, entries, late,
                 wire, attached, sinkVars, fault>>

(* One request of Negotiate, with an observer of its own.  A description that
   cannot be written or parsed ends the negotiation before it is asked. *)
Ask ==
  /\ pc = "request" /\ step < Negotiated
  /\ \/ reply' = "waiting" /\ Go("wait")
     \/ Negotiation[step].op # "create" /\ Return("1", "closeCaller") /\ UNCHANGED reply
  /\ UNCHANGED <<step, objects, stop, conn, signalVars, producerVars, entries, late,
                 wire, attached, sinkVars, fault>>

(* The observer's Wait: there is no timeout. *)
Wait ==
  /\ pc = "wait" /\ reply # "waiting"
  /\ reply' = "none"
  /\ \/ reply = "ok" /\ Go("request") /\ step' = step + 1
     \/ reply = "failed" /\ Return("1", "closeCaller") /\ UNCHANGED step
  /\ UNCHANGED <<objects, stop, conn, signalVars, producerVars, entries, late,
                 wire, attached, sinkVars, fault>>

(* WaitForFrames: it returns done_, when that is set or after ten seconds. *)
WaitForFrames ==
  /\ pc = "request" /\ step = Negotiated
  /\ Return(IF done THEN "0" ELSE "1", "closeCaller")
  /\ UNCHANGED <<step, objects, stop, reply, conn, signalVars, producerVars, entries,
                 late, wire, attached, sinkVars, fault>>

(* close_peers.  Close detaches the encoders, or the remote sink. *)
Detach(p) ==
  /\ entries' = IF p = "caller" THEN [s \in Encoders |-> 0] ELSE entries
  /\ late' = IF p = "caller"
             THEN [s \in Encoders |-> IF entries[s] > 0 THEN 0 ELSE late[s]] ELSE late
  /\ attached' = (attached /\ p # "callee")
Close(p) ==
  /\ pc = IF p = "caller" THEN "closeCaller" ELSE "closeCallee"
  /\ IF conn[p] = "open"
     THEN conn' = [conn EXCEPT ![p] = "closed"] /\ Detach(p)
     ELSE UNCHANGED <<conn, entries, late, attached>>
  /\ Go(IF p = "caller" THEN "closeCallee" ELSE "dropCallee")
  /\ UNCHANGED <<step, objects, stop, reply, signalVars, producerVars, wire,
                 sinkVars, fault>>

(* ~PeerHarness: with its last reference the connection goes, and callbacks
   end; the caller's takes the source with it, whose destructor stops the
   producer and joins it. *)
DropCallee ==
  /\ pc = "dropCallee"
  /\ conn' = [conn EXCEPT !["callee"] = "closed"] /\ attached' = FALSE
  /\ objects' = objects \ {"callee"} /\ Go("stopSource")
  /\ UNCHANGED <<step, stop, reply, signalVars, producerVars, entries, late, wire,
                 sinkVars, fault>>

(* Mutant: stop_ is not set. *)
StopSourceSilent ==
  /\ pc = "stopSource"
  /\ conn' = [conn EXCEPT !["caller"] = "closed"] /\ Go("joinSource")
  /\ UNCHANGED <<step, stop, objects, reply, signalVars, producerVars, entries, late, wire,
                 attached, sinkVars, fault>>

StopSource ==
  /\ pc = "stopSource"
  /\ conn' = [conn EXCEPT !["caller"] = "closed"]
  /\ stop' = TRUE /\ Go("joinSource")
  /\ UNCHANGED <<step, objects, reply, signalVars, producerVars, entries, late, wire,
                 attached, sinkVars, fault>>

(* Mutant: the destructor does not join the producer. *)
JoinSourceDetached ==
  /\ pc = "joinSource"
  /\ objects' = objects \ {"source", "caller"} /\ Go("dropSink")
  /\ UNCHANGED <<step, stop, reply, conn, signalVars, producerVars, entries, late,
                 wire, attached, sinkVars, fault>>

JoinSource ==
  /\ pc = "joinSource" /\ producer \in {"none", "ended"}
  /\ objects' = objects \ {"source", "caller"} /\ Go("dropSink")
  /\ UNCHANGED <<step, stop, reply, conn, signalVars, producerVars, entries, late,
                 wire, attached, sinkVars, fault>>

DropSink ==
  /\ pc = "dropSink"
  /\ objects' = objects \ {"sink"} /\ Go("dropThreads")
  /\ UNCHANGED <<step, stop, reply, conn, signalVars, producerVars, entries, late,
                 wire, attached, sinkVars, fault>>

(* The factory, the threads and ssl_cleanup. *)
DropThreads ==
  /\ pc = "dropThreads"
  /\ objects' = objects \ {"threads", "ssl"} /\ Go("returned")
  /\ UNCHANGED <<step, stop, reply, conn, signalVars, producerVars, entries, late,
                 wire, attached, sinkVars, fault>>

Main ==
  \/ InitializeSSL \/ StartThreads \/ CreateFactory
  \/ \E p \in Peers : Initialize(p)
  \/ AddSyntheticTrack \/ Ask \/ Wait \/ WaitForFrames
  \/ \E p \in Peers : Close(p)
  \/ DropCallee \/ StopSource \/ JoinSource \/ DropSink \/ DropThreads

(*--------------------------- the signaling thread --------------------------*)
(* WebRTC answers a request through its observer, which sets done_ and wakes
   main.  A remote offer brings the callee's track: OnTrack adds the sink. *)
Complete ==
  /\ reply = "waiting"
  /\ \/ /\ reply' = "ok"
        /\ LET r == Negotiation[step] IN
           /\ local' = IF r.op = "setLocal" THEN local \union {r.peer} ELSE local
           /\ remote' = IF r.op = "setRemote" THEN remote \union {r.peer} ELSE remote
           /\ attached' = (attached \/ r = Request("setRemote", "callee"))
     \/ reply' = "failed" /\ UNCHANGED <<local, remote, attached>>
  /\ UNCHANGED <<mainVars, conn, gathered, heard, producerVars, entries, late, wire,
                 sinkVars, fault>>

(* Mutant: the callbacks of the two peers are mixed up. *)
AddIceCandidateToSender(p, c) ==
  heard' = IF conn[p] = "open" /\ p \in remote
           THEN [heard EXCEPT ![Other(p)] = @ \union {c}] ELSE heard

(* AddIceCandidate refuses a candidate before the remote description. *)
AddIceCandidate(p, c) ==
  heard' = IF conn[p] = "open" /\ p \in remote
           THEN [heard EXCEPT ![p] = @ \union {c}] ELSE heard

(* OnIceCandidate of p: the copy goes to the other peer at once; what that
   refuses is logged and not sent again. *)
OnIceCandidate(p, c) ==
  /\ conn[p] = "open" /\ p \in local /\ c \notin gathered[p]
  /\ gathered' = [gathered EXCEPT ![p] = @ \union {c}]
  /\ AddIceCandidate(Other(p), c)
  /\ fault' = (fault \/ Other(p) \notin objects \/ conn[Other(p)] = "none"
                     \/ p \notin objects)
  /\ UNCHANGED <<mainVars, reply, conn, local, remote, producerVars, entries, late,
                 wire, attached, sinkVars>>

Signaling == Complete \/ \E p \in Peers, c \in Candidates : OnIceCandidate(p, c)

(*--------------------------- SyntheticVideoSource --------------------------*)
SourceGone == "source" \notin objects

AddOrUpdateSink(s) ==
  /\ conn["caller"] = "open" /\ producer # "none"
  /\ entries' = [entries EXCEPT ![s] = IF @ > 0 THEN @ ELSE 1]
  /\ late' = [late EXCEPT ![s] = 0]
  /\ UNCHANGED <<mainVars, reply, conn, signalVars, producerVars, wire, attached,
                 sinkVars, fault>>

RemoveSink(s) ==
  /\ conn["caller"] = "open" /\ producer # "none" /\ entries[s] > 0
  /\ entries' = [entries EXCEPT ![s] = 0]
  /\ late' = [late EXCEPT ![s] = 0]
  /\ UNCHANGED <<mainVars, reply, conn, signalVars, producerVars, wire, attached,
                 sinkVars, fault>>

(* Mutant: the copy of the last frame is used again. *)
BroadcastToOldCopy ==
  /\ producer = "asleep" /\ ~stop
  /\ producer' = "sending"
  /\ copy' = [s \in Encoders |-> IF calls[s] > 0 THEN 1 ELSE entries[s]]
  /\ calls' = [s \in Encoders |-> 0]
  /\ fault' = (fault \/ SourceGone)
  /\ UNCHANGED <<mainVars, reply, conn, signalVars, entries, late, wire, attached,
                 sinkVars>>

(* The head of the loop, and of BroadcastFrame: the sinks are copied under
   the mutex and called after it is released. *)
BroadcastFrame ==
  /\ producer = "asleep" /\ ~stop
  /\ producer' = "sending" /\ copy' = entries
  /\ calls' = [s \in Encoders |-> 0]
  /\ fault' = (fault \/ SourceGone)
  /\ UNCHANGED <<mainVars, reply, conn, signalVars, entries, late, wire, attached,
                 sinkVars>>

(* Candidates of one side are enough: the other learns its address from the
   connectivity checks. *)
Connected ==
  /\ remote = Peers /\ \E p \in Peers : heard[p] # {}
  /\ \A p \in Peers : conn[p] = "open"

(* entry.sink->OnFrame: the frame goes on the wire, or is lost. *)
CallSink(s) ==
  /\ producer = "sending" /\ copy[s] > 0
  /\ copy' = [copy EXCEPT ![s] = @ - 1]
  /\ calls' = [calls EXCEPT ![s] = @ + 1]
  /\ late' = IF entries[s] = 0 THEN [late EXCEPT ![s] = @ + 1] ELSE late
  /\ \/ UNCHANGED wire
     \/ Connected /\ entries[s] > 0 /\ wire < MaxWire /\ wire' = wire + 1
  /\ fault' = (fault \/ SourceGone)
  /\ UNCHANGED <<mainVars, reply, conn, signalVars, producer, entries, attached, sinkVars>>

EndBroadcast ==
  /\ producer = "sending" /\ \A s \in Encoders : copy[s] = 0
  /\ producer' = "asleep"
  /\ UNCHANGED <<mainVars, reply, conn, signalVars, copy, calls, entries, late, wire,
                 attached, sinkVars, fault>>

EndProducer ==
  /\ producer = "asleep" /\ stop
  /\ producer' = "ended"
  /\ fault' = (fault \/ SourceGone)
  /\ UNCHANGED <<mainVars, reply, conn, signalVars, copy, calls, entries, late, wire,
                 attached, sinkVars>>

Producer == BroadcastFrame \/ (\E s \in Encoders : CallSink(s)) \/ EndBroadcast \/ EndProducer

(*----------------------------- FrameCounterSink ----------------------------*)
(* OnFrame of the remote sink, called by the callee's decoder. *)
OnFrame ==
  /\ wire > 0 /\ attached /\ conn["callee"] = "open" /\ count < MaxFrames
  /\ wire' = wire - 1
  /\ count' = count + 1
  /\ done' = (done \/ count + 1 >= TargetFrames)
  /\ fault' = (fault \/ "sink" \notin objects)
  /\ UNCHANGED <<mainVars, reply, conn, signalVars, producerVars, entries, late, attached>>

Media == (\E s \in Encoders : AddOrUpdateSink(s) \/ RemoveSink(s)) \/ OnFrame

Returned == pc = "returned" /\ UNCHANGED vars

Next == Main \/ Signaling \/ Producer \/ Media \/ Returned

Spec == Init /\ [][Next]_vars

(* Threads that can go on do; WebRTC answers each request and the ten seconds
   pass.  Nothing is asked of candidates, encoders and frames. *)
Fairness == WF_vars(Main) /\ WF_vars(Complete) /\ WF_vars(Producer)

(*------------------------------- properties -------------------------------*)
Places ==
  {"ssl", "threads", "factory", "initialize", "addTrack", "request", "wait",
   "closeCaller", "closeCallee", "dropCallee", "stopSource", "joinSource",
   "dropSink", "dropThreads", "returned"}

TypeOK ==
  /\ pc \in Places /\ status \in {"none", "0", "1"} /\ step \in 1..Negotiated
  /\ reply \in {"none", "waiting", "ok", "failed"}
  /\ objects \subseteq Peers \union {"ssl", "threads", "sink", "source"}
  /\ conn \in [Peers -> {"none", "open", "closed"}]
  /\ local \subseteq Peers /\ remote \subseteq Peers
  /\ gathered \in [Peers -> SUBSET Candidates]
  /\ heard \in [Peers -> SUBSET Candidates]
  /\ producer \in {"none", "asleep", "sending", "ended"} /\ stop \in BOOLEAN
  /\ entries \in [Encoders -> Nat] /\ copy \in [Encoders -> Nat]
  /\ calls \in [Encoders -> Nat] /\ late \in [Encoders -> Nat]
  /\ wire \in 0..MaxWire /\ attached \in BOOLEAN
  /\ count \in 0..MaxFrames /\ done \in BOOLEAN /\ fault \in BOOLEAN

(* No callback of a connection, and no step of the producer, reaches a peer, a
   source, a sink or a connection that does not exist: the cleanup closes both
   connections before it destroys either peer, and joins the producer. *)
NoDangling == ~fault

(* main returns 0 only if the remote sink had its frames. *)
ZeroMeansFrames == status = "0" => count >= TargetFrames

(* A candidate that the peers have lost, because it came before the remote
   description, does not come back; so frames that arrive show that one of
   the candidates came after it, and that main went through the negotiation up
   to its last request. *)
FramesNeedCandidates ==
  count > 0 => /\ \E p \in Peers : heard[p] # {} /\ heard[p] \subseteq gathered[Other(p)]
               /\ step >= Negotiated - 1 /\ local = Peers

(* What main reports rests on frames, and frames on the negotiation: neither a
   lost candidate, nor a failed request, nor the timeout gives a wrong 0. *)
FramesForCause == ZeroMeansFrames /\ FramesNeedCandidates

(* A frame is given to a sink once, however often the sink was updated. *)
OncePerFrame == \A s \in Encoders : calls[s] <= 1

(* RemoveSink does not wait for the frame that is being sent, so a removed
   sink may be called again: once, and not for a later frame. *)
LateOnce == \A s \in Encoders : late[s] <= 1

(* The copy of sinks_ that BroadcastFrame goes through without the lock, while
   encoders come, change and go, calls each at most once for a frame, and a
   removed one at most once more. *)
SinkCalls == OncePerFrame /\ LateOnce
=============================================================================
