-------------------------- MODULE WebRtcCall_proofs --------------------------
(* The safety of WebRtcCall for every number of encoders, candidates and     *)
(* frames.  The invariant has four parts: how long the objects and the       *)
(* connections live along main's way, how far the negotiation has come, what *)
(* the frames that arrive presuppose, and the entries of the source.         *)
EXTENDS WebRtcCall, TLAPS

(* The places where both peers and the sink exist, and those where a
   connection may be open. *)
PeersUp == {"initialize", "addTrack", "request", "wait", "closeCaller", "closeCallee",
            "dropCallee"}
Before  == {"ssl", "threads", "factory", "initialize", "addTrack"}
OpenAt(p) == {"initialize", "addTrack", "request", "wait", "closeCaller"}
             \union (IF p = "callee" THEN {"closeCallee"} ELSE {})

Lifetimes ==
  /\ pc \in PeersUp => Peers \union {"sink"} \subseteq objects
  /\ \A p \in Peers : conn[p] = "open" => pc \in OpenAt(p)
  /\ pc \in {"addTrack", "request", "wait"} => \A p \in Peers : conn[p] = "open"
  /\ pc \in Before => local = {} /\ reply = "none" /\ producer = "none"
  /\ local # {} => \A p \in Peers : conn[p] # "none"
  /\ pc = "wait" => step < Negotiated
  /\ reply = "waiting" => pc = "wait"
  /\ producer \in {"asleep", "sending"} => "source" \in objects
  /\ pc \in {"dropSink", "dropThreads", "returned"} => producer \in {"none", "ended"}
  /\ ~fault

Progress ==
  /\ step >= 3 \/ (step = 2 /\ reply = "ok") => "caller" \in local
  /\ step >= 6 \/ (step = 5 /\ reply = "ok") => "callee" \in local
  /\ "caller" \in remote => step >= 6
  /\ \A p \in Peers : heard[p] \subseteq gathered[Other(p)]

Arrived ==
  /\ \E p \in Peers : heard[p] # {}
  /\ step >= 6 /\ local = Peers
Frames ==
  /\ count > 0 \/ wire > 0 => Arrived
  /\ done => count >= TargetFrames
  /\ status = "0" => count >= TargetFrames

Entries ==
  \A s \in Encoders :
    /\ entries[s] <= 1 /\ copy[s] + calls[s] <= 1
    /\ entries[s] = 0 => late[s] + copy[s] <= 1
    /\ entries[s] # 0 => late[s] = 0

IInv == TypeOK /\ Lifetimes /\ Progress /\ Frames /\ Entries

LEMMA NegotiationFacts ==
  ASSUME NEW n \in 1..Negotiated, n < Negotiated
  PROVE  /\ Negotiation[n].peer \in Peers
         /\ Negotiation[n].op = "setLocal" => n \in {2, 5}
         /\ n = 2 => Negotiation[n] = Request("setLocal", "caller")
         /\ n = 5 => Negotiation[n] = Request("setLocal", "callee")
         /\ Negotiation[n].op = "setRemote" /\ Negotiation[n].peer = "caller" => n = 6
<1>1. n \in {1, 2, 3, 4, 5, 6}
  BY DEF Negotiated
<1>2. QED
  BY <1>1 DEF Negotiation, Request, Peers

(* Every variable keeps its type. *)
LEMMA TypeStep == ASSUME TypeOK, Lifetimes, [Next]_vars PROVE TypeOK'
<1> USE DEF TypeOK, Places, Peers, Other, mainVars, signalVars, producerVars, sinkVars
<1>1. CASE InitializeSSL
  BY <1>1 DEF InitializeSSL, Go, Return
<1>2. CASE StartThreads
  BY <1>2 DEF StartThreads, Go, Return
<1>3. CASE CreateFactory
  BY <1>3 DEF CreateFactory, Go, Return
<1>4. ASSUME NEW p \in Peers, Initialize(p) PROVE TypeOK'
  BY <1>4 DEF Initialize, Go, Return
<1>5. CASE AddSyntheticTrack
  BY <1>5 DEF AddSyntheticTrack, Go, Return
<1>6. CASE Ask
  BY <1>6 DEF Ask, Go, Return, Negotiated
<1>7. CASE Wait
  BY <1>7 DEF Wait, Go, Return, Negotiated, Lifetimes
<1>8. CASE WaitForFrames
  BY <1>8 DEF WaitForFrames, Return
<1>9. ASSUME NEW p \in Peers, Close(p) PROVE TypeOK'
  <2>1. entries' \in [Encoders -> Nat] /\ late' \in [Encoders -> Nat] /\ attached' \in BOOLEAN
    <3>1. CASE conn[p] = "open" /\ p = "caller"
      BY <1>9, <3>1 DEF Close, Detach
    <3>2. CASE ~(conn[p] = "open" /\ p = "caller")
      BY <1>9, <3>2 DEF Close, Detach
    <3>3. QED
      BY <3>1, <3>2
  <2>2. conn' \in [Peers -> {"none", "open", "closed"}]
    BY <1>9 DEF Close
  <2>3. QED
    BY <1>9, <2>1, <2>2 DEF Close, Go
<1>10. CASE DropCallee
  BY <1>10 DEF DropCallee, Go
<1>11. CASE StopSource
  BY <1>11 DEF StopSource, Go
<1>12. CASE JoinSource
  BY <1>12 DEF JoinSource, Go
<1>13. CASE DropSink
  BY <1>13 DEF DropSink, Go
<1>14. CASE DropThreads
  BY <1>14 DEF DropThreads, Go
<1>15. CASE Complete
  BY <1>15, NegotiationFacts DEF Complete, Negotiated, Lifetimes
<1>16. ASSUME NEW p \in Peers, NEW c \in Candidates, OnIceCandidate(p, c) PROVE TypeOK'
  BY <1>16 DEF OnIceCandidate, AddIceCandidate
<1>17. ASSUME NEW s \in Encoders, AddOrUpdateSink(s) PROVE TypeOK'
  BY <1>17 DEF AddOrUpdateSink
<1>18. ASSUME NEW s \in Encoders, RemoveSink(s) PROVE TypeOK'
  BY <1>18 DEF RemoveSink
<1>19. CASE BroadcastFrame
  BY <1>19 DEF BroadcastFrame, SourceGone
<1>20. ASSUME NEW s \in Encoders, CallSink(s) PROVE TypeOK'
  <2>1. copy' \in [Encoders -> Nat] /\ calls' \in [Encoders -> Nat]
    BY <1>20 DEF CallSink
  <2>2. late' \in [Encoders -> Nat]
    BY <1>20 DEF CallSink
  <2>3. wire' \in 0..MaxWire /\ fault' \in BOOLEAN
    BY <1>20, BoundAssumption DEF CallSink
  <2>4. QED
    BY <1>20, <2>1, <2>2, <2>3 DEF CallSink
<1>21. CASE EndBroadcast
  BY <1>21 DEF EndBroadcast
<1>22. CASE EndProducer
  BY <1>22 DEF EndProducer, SourceGone
<1>23. CASE OnFrame
  BY <1>23, BoundAssumption DEF OnFrame
<1>24. CASE UNCHANGED vars
  BY <1>24 DEF vars
<1>25. QED
  BY <1>1, <1>2, <1>3, <1>4, <1>5, <1>6, <1>7, <1>8, <1>9, <1>10, <1>11, <1>12, <1>13, <1>14, <1>15, <1>16, <1>17, <1>18, <1>19, <1>20, <1>21, <1>22, <1>23, <1>24
     DEF Next, Main, Signaling, Producer, Media, Returned

(* The order of main's way keeps what callbacks use alive. *)
LEMMA LifetimesStep == ASSUME TypeOK, Lifetimes, [Next]_vars PROVE Lifetimes'
<1> USE DEF Lifetimes, PeersUp, Before, OpenAt, Peers, Other, mainVars, signalVars, producerVars, sinkVars
<1>1. CASE InitializeSSL
  BY <1>1 DEF InitializeSSL, Go, Return
<1>2. CASE StartThreads
  BY <1>2 DEF StartThreads, Go, Return
<1>3. CASE CreateFactory
  BY <1>3 DEF CreateFactory, Go, Return, TypeOK
<1>4. ASSUME NEW p \in Peers, Initialize(p) PROVE Lifetimes'
  <2>1. /\ UNCHANGED <<step, objects, reply, local, producer, fault>>
        /\ pc = "initialize" /\ pc' \in {"addTrack", "initialize", "closeCaller"}
    BY <1>4 DEF Initialize, Go, Return
  <2>2. \A q \in Peers : conn[q] # "none" => conn'[q] # "none"
    BY <1>4 DEF Initialize, TypeOK
  <2>3. pc' = "addTrack" => \A q \in Peers : conn'[q] = "open"
    BY <1>4 DEF Initialize, Go, Return, TypeOK
  <2>4. QED
    BY <2>1, <2>2, <2>3
<1>5. CASE AddSyntheticTrack
  BY <1>5 DEF AddSyntheticTrack, Go, Return
<1>6. CASE Ask
  BY <1>6 DEF Ask, Go, Return, Negotiated, TypeOK
<1>7. CASE Wait
  BY <1>7 DEF Wait, Go, Return
<1>8. CASE WaitForFrames
  BY <1>8 DEF WaitForFrames, Return
<1>9. ASSUME NEW p \in Peers, Close(p) PROVE Lifetimes'
  <2>1. /\ UNCHANGED <<step, objects, reply, local, producer, fault>>
        /\ pc' \in {"closeCallee", "dropCallee"} /\ pc \in {"closeCaller", "closeCallee"}
    BY <1>9 DEF Close, Go
  <2>2. \A q \in Peers : conn'[q] = "open" => pc' \in OpenAt(q)
    <3>1. CASE p = "caller"
      BY <1>9, <3>1 DEF Close, Go, TypeOK
    <3>2. CASE p = "callee"
      BY <1>9, <3>2 DEF Close, Go, TypeOK
    <3>3. QED
      BY <3>1, <3>2
  <2>3. \A q \in Peers : conn[q] # "none" => conn'[q] # "none"
    BY <1>9 DEF Close, TypeOK
  <2>4. QED
    BY <2>1, <2>2, <2>3
<1>10. CASE DropCallee
  BY <1>10 DEF DropCallee, Go
<1>11. CASE StopSource
  BY <1>11 DEF StopSource, Go
<1>12. CASE JoinSource
  BY <1>12 DEF JoinSource, Go
<1>13. CASE DropSink
  BY <1>13 DEF DropSink, Go
<1>14. CASE DropThreads
  BY <1>14 DEF DropThreads, Go
<1>15. CASE Complete
  BY <1>15 DEF Complete
<1>16. ASSUME NEW p \in Peers, NEW c \in Candidates, OnIceCandidate(p, c) PROVE Lifetimes'
  BY <1>16 DEF OnIceCandidate, AddIceCandidate
<1>17. ASSUME NEW s \in Encoders, AddOrUpdateSink(s) PROVE Lifetimes'
  BY <1>17 DEF AddOrUpdateSink
<1>18. ASSUME NEW s \in Encoders, RemoveSink(s) PROVE Lifetimes'
  BY <1>18 DEF RemoveSink
<1>19. CASE BroadcastFrame
  BY <1>19 DEF BroadcastFrame, SourceGone
<1>20. ASSUME NEW s \in Encoders, CallSink(s) PROVE Lifetimes'
  BY <1>20 DEF CallSink, SourceGone
<1>21. CASE EndBroadcast
  BY <1>21 DEF EndBroadcast
<1>22. CASE EndProducer
  BY <1>22 DEF EndProducer, SourceGone
<1>23. CASE OnFrame
  BY <1>23 DEF OnFrame
<1>24. CASE UNCHANGED vars
  BY <1>24 DEF vars
<1>25. QED
  BY <1>1, <1>2, <1>3, <1>4, <1>5, <1>6, <1>7, <1>8, <1>9, <1>10, <1>11, <1>12, <1>13, <1>14, <1>15, <1>16, <1>17, <1>18, <1>19, <1>20, <1>21, <1>22, <1>23, <1>24
     DEF Next, Main, Signaling, Producer, Media, Returned

(* Descriptions are set in the order of the requests. *)
LEMMA ProgressStep == ASSUME TypeOK, Lifetimes, Progress, [Next]_vars PROVE Progress'
<1> USE DEF Progress, Peers, Other, mainVars, signalVars, producerVars, sinkVars
<1>1. CASE InitializeSSL
  BY <1>1 DEF InitializeSSL, Go, Return
<1>2. CASE StartThreads
  BY <1>2 DEF StartThreads, Go, Return
<1>3. CASE CreateFactory
  BY <1>3 DEF CreateFactory, Go, Return
<1>4. ASSUME NEW p \in Peers, Initialize(p) PROVE Progress'
  BY <1>4 DEF Initialize, Go, Return
<1>5. CASE AddSyntheticTrack
  BY <1>5 DEF AddSyntheticTrack, Go, Return
<1>6. CASE Ask
  BY <1>6 DEF Ask, Go, Return
<1>7. CASE Wait
  BY <1>7 DEF Wait, Go, Return, TypeOK
<1>8. CASE WaitForFrames
  BY <1>8 DEF WaitForFrames, Return
<1>9. ASSUME NEW p \in Peers, Close(p) PROVE Progress'
  BY <1>9 DEF Close, Go, Detach
<1>10. CASE DropCallee
  BY <1>10 DEF DropCallee, Go
<1>11. CASE StopSource
  BY <1>11 DEF StopSource, Go
<1>12. CASE JoinSource
  BY <1>12 DEF JoinSource, Go
<1>13. CASE DropSink
  BY <1>13 DEF DropSink, Go
<1>14. CASE DropThreads
  BY <1>14 DEF DropThreads, Go
<1>15. CASE Complete
  BY <1>15, NegotiationFacts DEF Complete, Lifetimes, TypeOK, Request
<1>16. ASSUME NEW p \in Peers, NEW c \in Candidates, OnIceCandidate(p, c) PROVE Progress'
  BY <1>16 DEF OnIceCandidate, AddIceCandidate, TypeOK
<1>17. ASSUME NEW s \in Encoders, AddOrUpdateSink(s) PROVE Progress'
  BY <1>17 DEF AddOrUpdateSink
<1>18. ASSUME NEW s \in Encoders, RemoveSink(s) PROVE Progress'
  BY <1>18 DEF RemoveSink
<1>19. CASE BroadcastFrame
  BY <1>19 DEF BroadcastFrame
<1>20. ASSUME NEW s \in Encoders, CallSink(s) PROVE Progress'
  BY <1>20 DEF CallSink
<1>21. CASE EndBroadcast
  BY <1>21 DEF EndBroadcast
<1>22. CASE EndProducer
  BY <1>22 DEF EndProducer
<1>23. CASE OnFrame
  BY <1>23 DEF OnFrame
<1>24. CASE UNCHANGED vars
  BY <1>24 DEF vars
<1>25. QED
  BY <1>1, <1>2, <1>3, <1>4, <1>5, <1>6, <1>7, <1>8, <1>9, <1>10, <1>11, <1>12, <1>13, <1>14, <1>15, <1>16, <1>17, <1>18, <1>19, <1>20, <1>21, <1>22, <1>23, <1>24
     DEF Next, Main, Signaling, Producer, Media, Returned

(* Frames pass only after the negotiation, and a result counts them. *)
LEMMA FramesStep == ASSUME TypeOK, Lifetimes, Progress, Frames, [Next]_vars PROVE Frames'
<1> USE DEF Frames, Arrived, Peers, Other, mainVars, signalVars, producerVars, sinkVars
<1>1. CASE InitializeSSL
  BY <1>1 DEF InitializeSSL, Go, Return
<1>2. CASE StartThreads
  BY <1>2 DEF StartThreads, Go, Return
<1>3. CASE CreateFactory
  BY <1>3 DEF CreateFactory, Go, Return
<1>4. ASSUME NEW p \in Peers, Initialize(p) PROVE Frames'
  BY <1>4 DEF Initialize, Go, Return
<1>5. CASE AddSyntheticTrack
  BY <1>5 DEF AddSyntheticTrack, Go, Return
<1>6. CASE Ask
  BY <1>6 DEF Ask, Go, Return
<1>7. CASE Wait
  BY <1>7 DEF Wait, Go, Return, TypeOK
<1>8. CASE WaitForFrames
  BY <1>8 DEF WaitForFrames, Return
<1>9. ASSUME NEW p \in Peers, Close(p) PROVE Frames'
  BY <1>9 DEF Close, Go, Detach
<1>10. CASE DropCallee
  BY <1>10 DEF DropCallee, Go
<1>11. CASE StopSource
  BY <1>11 DEF StopSource, Go
<1>12. CASE JoinSource
  BY <1>12 DEF JoinSource, Go
<1>13. CASE DropSink
  BY <1>13 DEF DropSink, Go
<1>14. CASE DropThreads
  BY <1>14 DEF DropThreads, Go
<1>15. CASE Complete
  <2>1. step \in 1..Negotiated /\ step < Negotiated
    BY <1>15 DEF Complete, Lifetimes, TypeOK
  <2>2. Negotiation[step].peer \in Peers
    BY <2>1, NegotiationFacts
  <2>3. local = Peers => local' = Peers
    BY <1>15, <2>2 DEF Complete
  <2>4. UNCHANGED <<step, heard, count, wire, done, status>>
    BY <1>15 DEF Complete
  <2>5. QED
    BY <2>3, <2>4
<1>16. ASSUME NEW p \in Peers, NEW c \in Candidates, OnIceCandidate(p, c) PROVE Frames'
  BY <1>16 DEF OnIceCandidate, AddIceCandidate, TypeOK
<1>17. ASSUME NEW s \in Encoders, AddOrUpdateSink(s) PROVE Frames'
  BY <1>17 DEF AddOrUpdateSink
<1>18. ASSUME NEW s \in Encoders, RemoveSink(s) PROVE Frames'
  BY <1>18 DEF RemoveSink
<1>19. CASE BroadcastFrame
  BY <1>19 DEF BroadcastFrame
<1>20. ASSUME NEW s \in Encoders, CallSink(s) PROVE Frames'
  <2>1. UNCHANGED <<step, local, heard, count, done, status>>
    BY <1>20 DEF CallSink
  <2>2. CASE UNCHANGED wire
    BY <2>1, <2>2
  <2>3. CASE Connected
    <3>1. step >= 6 /\ \E p \in Peers : heard[p] # {}
      BY <2>3 DEF Connected, Progress
    <3>2. local = Peers
      <4>1. step \in Nat /\ local \subseteq {"caller", "callee"}
        BY DEF TypeOK, Negotiated
      <4>2. step >= 3 /\ step >= 6
        BY <3>1, <4>1
      <4>3. "caller" \in local /\ "callee" \in local
        BY <4>2 DEF Progress
      <4>4. QED
        BY <4>1, <4>3
    <3>3. QED
      BY <2>1, <3>1, <3>2
  <2>4. QED
    BY <1>20, <2>2, <2>3 DEF CallSink
<1>21. CASE EndBroadcast
  BY <1>21 DEF EndBroadcast
<1>22. CASE EndProducer
  BY <1>22 DEF EndProducer
<1>23. CASE OnFrame
  BY <1>23, BoundAssumption DEF OnFrame, TypeOK
<1>24. CASE UNCHANGED vars
  BY <1>24 DEF vars
<1>25. QED
  BY <1>1, <1>2, <1>3, <1>4, <1>5, <1>6, <1>7, <1>8, <1>9, <1>10, <1>11, <1>12, <1>13, <1>14, <1>15, <1>16, <1>17, <1>18, <1>19, <1>20, <1>21, <1>22, <1>23, <1>24
     DEF Next, Main, Signaling, Producer, Media, Returned

(* The entries of the source, and the calls of a broadcast. *)
LEMMA EntriesStep == ASSUME TypeOK, Entries, [Next]_vars PROVE Entries'
<1> USE DEF Entries, mainVars, signalVars, producerVars, sinkVars
<1>1. CASE InitializeSSL
  BY <1>1 DEF InitializeSSL, Go, Return
<1>2. CASE StartThreads
  BY <1>2 DEF StartThreads, Go, Return
<1>3. CASE CreateFactory
  BY <1>3 DEF CreateFactory, Go, Return
<1>4. ASSUME NEW p \in Peers, Initialize(p) PROVE Entries'
  BY <1>4 DEF Initialize, Go, Return
<1>5. CASE AddSyntheticTrack
  BY <1>5 DEF AddSyntheticTrack, Go, Return
<1>6. CASE Ask
  BY <1>6 DEF Ask, Go, Return
<1>7. CASE Wait
  BY <1>7 DEF Wait, Go, Return
<1>8. CASE WaitForFrames
  BY <1>8 DEF WaitForFrames, Return
<1>9. ASSUME NEW p \in Peers, Close(p) PROVE Entries'
  BY <1>9 DEF Close, Go, Detach, TypeOK
<1>10. CASE DropCallee
  BY <1>10 DEF DropCallee, Go
<1>11. CASE StopSource
  BY <1>11 DEF StopSource, Go
<1>12. CASE JoinSource
  BY <1>12 DEF JoinSource, Go
<1>13. CASE DropSink
  BY <1>13 DEF DropSink, Go
<1>14. CASE DropThreads
  BY <1>14 DEF DropThreads, Go
<1>15. CASE Complete
  BY <1>15 DEF Complete
<1>16. ASSUME NEW p \in Peers, NEW c \in Candidates, OnIceCandidate(p, c) PROVE Entries'
  BY <1>16 DEF OnIceCandidate, AddIceCandidate
<1>17. ASSUME NEW s \in Encoders, AddOrUpdateSink(s) PROVE Entries'
  BY <1>17 DEF AddOrUpdateSink, TypeOK
<1>18. ASSUME NEW s \in Encoders, RemoveSink(s) PROVE Entries'
  BY <1>18 DEF RemoveSink, TypeOK
<1>19. CASE BroadcastFrame
  BY <1>19 DEF BroadcastFrame, TypeOK
<1>20. ASSUME NEW s \in Encoders, CallSink(s) PROVE Entries'
  BY <1>20 DEF CallSink, TypeOK
<1>21. CASE EndBroadcast
  BY <1>21 DEF EndBroadcast
<1>22. CASE EndProducer
  BY <1>22 DEF EndProducer
<1>23. CASE OnFrame
  BY <1>23 DEF OnFrame
<1>24. CASE UNCHANGED vars
  BY <1>24 DEF vars
<1>25. QED
  BY <1>1, <1>2, <1>3, <1>4, <1>5, <1>6, <1>7, <1>8, <1>9, <1>10, <1>11, <1>12, <1>13, <1>14, <1>15, <1>16, <1>17, <1>18, <1>19, <1>20, <1>21, <1>22, <1>23, <1>24
     DEF Next, Main, Signaling, Producer, Media, Returned

LEMMA InitInv == Init => IInv
<1>1. SUFFICES ASSUME Init PROVE IInv
  OBVIOUS
<1>2. TypeOK
  <2>1. /\ conn \in [Peers -> {"none", "open", "closed"}]
        /\ gathered \in [Peers -> SUBSET Candidates] /\ heard \in [Peers -> SUBSET Candidates]
    BY <1>1 DEF Init
  <2>2. /\ entries \in [Encoders -> Nat] /\ copy \in [Encoders -> Nat]
        /\ calls \in [Encoders -> Nat] /\ late \in [Encoders -> Nat]
    BY <1>1 DEF Init
  <2>3. wire \in 0..MaxWire /\ count \in 0..MaxFrames /\ step \in 1..Negotiated
    BY <1>1, BoundAssumption DEF Init, Negotiated
  <2>4. QED
    BY <1>1, <2>1, <2>2, <2>3 DEF Init, TypeOK, Places
<1>3. Lifetimes
  BY <1>1 DEF Init, Lifetimes, PeersUp, Before, OpenAt, Peers
<1>4. Progress
  BY <1>1 DEF Init, Progress, Peers, Other
<1>5. Frames
  BY <1>1, BoundAssumption DEF Init, Frames
<1>6. Entries
  <2>1. ASSUME NEW s \in Encoders
        PROVE  entries[s] = 0 /\ copy[s] = 0 /\ calls[s] = 0 /\ late[s] = 0
    BY <1>1 DEF Init
  <2>2. ASSUME NEW s \in Encoders
        PROVE  /\ entries[s] <= 1 /\ copy[s] + calls[s] <= 1
               /\ entries[s] = 0 => late[s] + copy[s] <= 1
               /\ entries[s] # 0 => late[s] = 0
    <3>1. entries[s] = 0 /\ copy[s] = 0 /\ calls[s] = 0 /\ late[s] = 0
      BY <2>1
    <3>2. QED
      BY <3>1
  <2>3. QED
    BY <2>2 DEF Entries
<1>7. QED
  BY <1>2, <1>3, <1>4, <1>5, <1>6 DEF IInv

LEMMA Inductive == Spec => []IInv
<1>1. IInv /\ [Next]_vars => IInv'
  BY TypeStep, LifetimesStep, ProgressStep, FramesStep, EntriesStep DEF IInv
<1>2. QED
  BY <1>1, InitInv, PTL DEF Spec

(* Every variable of the call keeps its type. *)
THEOREM Typing == Spec => []TypeOK
<1>1. IInv => TypeOK
  BY DEF IInv
<1>2. QED
  BY <1>1, Inductive, PTL

(* No callback and no step of the producer uses what does not exist. *)
THEOREM NothingDangles == Spec => []NoDangling
<1>1. IInv => NoDangling
  BY DEF IInv, Lifetimes, NoDangling
<1>2. QED
  BY <1>1, Inductive, PTL

(* main returns 0 only after TargetFrames frames. *)
THEOREM SuccessIsEarned == Spec => []ZeroMeansFrames
<1>1. IInv => ZeroMeansFrames
  BY DEF IInv, Frames, ZeroMeansFrames
<1>2. QED
  BY <1>1, Inductive, PTL

(* A frame arrives only over a candidate that was not lost, and at the end of
   the negotiation. *)
THEOREM FramesPresuppose == Spec => []FramesNeedCandidates
<1>1. IInv => FramesNeedCandidates
  BY DEF IInv, TypeOK, Progress, Frames, Arrived, FramesNeedCandidates, Negotiated, Peers
<1>2. QED
  BY <1>1, Inductive, PTL

(* A broadcast calls a sink at most once. *)
THEOREM FramesOnce == Spec => []OncePerFrame
<1>1. IInv => OncePerFrame
  <2>1. SUFFICES ASSUME IInv, NEW s \in Encoders
                 PROVE  calls[s] <= 1
    BY DEF OncePerFrame
  <2>2. entries[s] \in Nat /\ copy[s] \in Nat /\ calls[s] \in Nat /\ late[s] \in Nat
    BY <2>1 DEF IInv, TypeOK
  <2>3. QED
    BY <2>1, <2>2 DEF IInv, Entries
<1>2. QED
  BY <1>1, Inductive, PTL

(* A removed sink is called at most once. *)
THEOREM LateAtMostOnce == Spec => []LateOnce
<1>1. IInv => LateOnce
  <2>1. SUFFICES ASSUME IInv, NEW s \in Encoders
                 PROVE  late[s] <= 1
    BY DEF LateOnce
  <2>2. entries[s] \in Nat /\ copy[s] \in Nat /\ calls[s] \in Nat /\ late[s] \in Nat
    BY <2>1 DEF IInv, TypeOK
  <2>3. QED
    BY <2>1, <2>2 DEF IInv, Entries
<1>2. QED
  BY <1>1, Inductive, PTL

(* What the program reports is earned, and what arrives was negotiated. *)
THEOREM FramesAreEarned == Spec => []FramesForCause
<1>1. ZeroMeansFrames /\ FramesNeedCandidates => FramesForCause
  BY DEF FramesForCause
<1>2. QED
  BY <1>1, SuccessIsEarned, FramesPresuppose, PTL

(* The unlocked copy of sinks_ is harmless but for one late call. *)
THEOREM SinksAreCalledOnce == Spec => []SinkCalls
<1>1. OncePerFrame /\ LateOnce => SinkCalls
  BY DEF SinkCalls
<1>2. QED
  BY <1>1, FramesOnce, LateAtMostOnce, PTL
-----------------------------------------------------------------------------
(* Why the program returns. *)

(* The places of main from the last to the first. *)
Distance ==
  [ssl |-> 14, threads |-> 13, factory |-> 12, initialize |-> 11, addTrack |-> 10,
   request |-> 9, wait |-> 8, closeCaller |-> 7, closeCallee |-> 6, dropCallee |-> 5,
   stopSource |-> 4, joinSource |-> 3, dropSink |-> 2, dropThreads |-> 1, returned |-> 0]

(* How many steps main may have to go: the negotiation goes back to "request"
   once for each of its requests, and "initialize" is there for two peers. *)
Ahead ==
  Distance[pc] + 2 * (Negotiated - step) + (IF conn["caller"] = "none" THEN 1 ELSE 0)

(* No step of another party sets main back, and each of its own brings it
   nearer to its return, whatever fails. *)
MainAdvances == [][Ahead' <= Ahead /\ (Main => Ahead' < Ahead)]_vars

(* Where main waits for another party, that party was asked: a request has its
   observer until main has its answer, and the producer is told to stop
   before it is joined.  Elsewhere main waits for nobody. *)
WaitsForCause ==
  /\ pc = "wait" => reply # "none"
  /\ pc = "joinSource" => stop
  /\ pc = "initialize" =>
       \/ conn["caller"] = "none"
       \/ conn["caller"] = "open" /\ conn["callee"] = "none"

(* The sinks that a broadcast has not called yet. *)
Left == {s \in Encoders : copy[s] > 0}

(* Once it is told to stop, the producer begins no broadcast: it calls the
   sinks that are left of the last one, and ends. *)
RunsOut ==
  \/ producer' = "sending" /\ producer = "sending" /\ Left' \subseteq Left /\ Left' # Left
  \/ producer' = "asleep" /\ producer = "sending"
  \/ producer' = "ended" /\ producer = "asleep"
ProducerRunsOut == [][stop => stop' /\ (Producer => RunsOut)]_vars

(* What WaitsForCause needs: peers are initialised one after the other. *)
Asked ==
  /\ WaitsForCause
  /\ pc \in {"ssl", "threads", "factory"} => conn["caller"] = "none"
  /\ pc \in {"ssl", "threads", "factory", "initialize"} => conn["callee"] = "none"

LEMMA Distances ==
  /\ Distance["ssl"] = 14 /\ Distance["threads"] = 13 /\ Distance["factory"] = 12
  /\ Distance["initialize"] = 11 /\ Distance["addTrack"] = 10
  /\ Distance["request"] = 9 /\ Distance["wait"] = 8
  /\ Distance["closeCaller"] = 7 /\ Distance["closeCallee"] = 6
  /\ Distance["dropCallee"] = 5 /\ Distance["stopSource"] = 4
  /\ Distance["joinSource"] = 3 /\ Distance["dropSink"] = 2
  /\ Distance["dropThreads"] = 1 /\ Distance["returned"] = 0
BY DEF Distance

LEMMA Remaining == \A n \in 1..7 : Negotiated - n \in Nat
BY DEF Negotiated

LEMMA AheadIsNumber == ASSUME TypeOK PROVE Ahead \in Nat
<1>1. Distance[pc] \in Nat /\ Negotiated - step \in Nat
  BY Distances DEF TypeOK, Places, Negotiated
<1>2. QED
  BY <1>1 DEF Ahead

(* A step of main that leaves the request alone, and one that does not. *)
LEMMA Nearer ==
  ASSUME TypeOK, step' = step,
         conn'["caller"] = "none" => conn["caller"] = "none",
         Distance[pc] \in Nat, Distance[pc'] \in Nat, Distance[pc'] < Distance[pc]
  PROVE  Ahead' < Ahead
<1>1. Negotiated - step \in Nat
  BY DEF TypeOK, Negotiated
<1> DEFINE First == IF conn["caller"] = "none" THEN 1 ELSE 0
<1>2. First \in Nat /\ First' \in Nat /\ First' <= First
  OBVIOUS
<1>3. Ahead = Distance[pc] + 2 * (Negotiated - step) + First
  BY DEF Ahead
<1>4. Ahead' = Distance[pc'] + 2 * (Negotiated - step) + First'
  BY DEF Ahead, Distance
<1> HIDE DEF First
<1>5. QED
  BY <1>1, <1>2, <1>3, <1>4

LEMMA MainNearer == ASSUME TypeOK, Asked, Main PROVE Ahead' < Ahead
<1> USE Distances DEF Go, Return
<1>1. CASE InitializeSSL
  BY <1>1, Nearer DEF InitializeSSL
<1>2. CASE StartThreads
  BY <1>2, Nearer DEF StartThreads
<1>3. CASE CreateFactory
  BY <1>3, Nearer DEF CreateFactory
<1>4. ASSUME NEW p \in Peers, Initialize(p) PROVE Ahead' < Ahead
  <2>1. /\ pc = "initialize" /\ step' = step /\ conn[p] = "none"
        /\ pc' \in {"addTrack", "initialize", "closeCaller"}
        /\ pc' = "initialize" =>
             p = "caller" /\ conn'["caller"] = "open"
        /\ conn'["caller"] = "none" => conn["caller"] = "none"
    BY <1>4 DEF Initialize, TypeOK, Peers
  <2>2. CASE pc' = "initialize"
    <3>1. Ahead = 11 + 2 * (Negotiated - step) + 1
      BY <2>1, <2>2 DEF Ahead
    <3>2. Ahead' = 11 + 2 * (Negotiated - step) + 0
      BY <2>1, <2>2 DEF Ahead, Distance
    <3>3. Negotiated - step \in Nat
      BY DEF TypeOK, Negotiated
    <3>4. QED
      BY <3>1, <3>2, <3>3
  <2>3. CASE pc' # "initialize"
    BY <2>1, <2>3, Nearer
  <2>4. QED
    BY <2>2, <2>3
<1>5. CASE AddSyntheticTrack
  BY <1>5, Nearer DEF AddSyntheticTrack
<1>6. CASE Ask
  BY <1>6, Nearer DEF Ask
<1>7. CASE Wait
  <2>1. CASE pc' = "closeCaller"
    BY <1>7, <2>1, Nearer DEF Wait
  <2>2. CASE pc' = "request" /\ step' = step + 1
    <3>1. pc = "wait" /\ conn' = conn
      BY <1>7 DEF Wait
    <3> DEFINE First == IF conn["caller"] = "none" THEN 1 ELSE 0
    <3>2. Ahead = 8 + 2 * (Negotiated - step) + First
      BY <3>1 DEF Ahead
    <3>3. Ahead' = 9 + 2 * (Negotiated - (step + 1)) + First
      BY <2>2, <3>1 DEF Ahead, Distance, Negotiated
    <3>4. First \in Nat /\ step \in Nat /\ Negotiated \in Nat
      BY DEF TypeOK, Negotiated
    <3> HIDE DEF First
    <3>5. QED
      BY <3>2, <3>3, <3>4
  <2>3. QED
    BY <1>7, <2>1, <2>2 DEF Wait
<1>8. CASE WaitForFrames
  BY <1>8, Nearer DEF WaitForFrames
<1>9. ASSUME NEW p \in Peers, Close(p) PROVE Ahead' < Ahead
  <2>1. /\ step' = step
        /\ \/ pc = "closeCaller" /\ pc' = "closeCallee"
           \/ pc = "closeCallee" /\ pc' = "dropCallee"
    BY <1>9 DEF Close, Peers
  <2>2. conn'["caller"] = "none" => conn["caller"] = "none"
    BY <1>9 DEF Close, TypeOK, Peers
  <2>3. QED
    BY <2>1, <2>2, Nearer
<1>10. CASE DropCallee
  <2>1. conn'["caller"] = "none" => conn["caller"] = "none"
    BY <1>10 DEF DropCallee, TypeOK, Peers
  <2>2. QED
    BY <1>10, <2>1, Nearer DEF DropCallee
<1>11. CASE StopSource
  <2>1. conn'["caller"] = "none" => conn["caller"] = "none"
    BY <1>11 DEF StopSource, TypeOK, Peers
  <2>2. QED
    BY <1>11, <2>1, Nearer DEF StopSource
<1>12. CASE JoinSource
  BY <1>12, Nearer DEF JoinSource
<1>13. CASE DropSink
  BY <1>13, Nearer DEF DropSink
<1>14. CASE DropThreads
  BY <1>14, Nearer DEF DropThreads
<1>15. QED
  BY <1>1, <1>2, <1>3, <1>4, <1>5, <1>6, <1>7, <1>8, <1>9, <1>10, <1>11, <1>12, <1>13, <1>14
     DEF Main

(* The other parties change neither main's place nor a connection. *)
LEMMA OthersLeaveMain ==
  ASSUME [Next]_vars
  PROVE  Main \/ UNCHANGED <<pc, step, stop, conn>>
BY DEF Next, Signaling, Producer, Media, Returned, Complete, OnIceCandidate,
       AddOrUpdateSink, RemoveSink, BroadcastFrame, CallSink, EndBroadcast, EndProducer,
       OnFrame, vars, mainVars

(* An answer is there until main has taken it. *)
LEMMA OthersLeaveReply ==
  ASSUME [Next]_vars, ~Main, reply # "none"
  PROVE  reply' # "none"
BY DEF Next, Signaling, Producer, Media, Returned, Complete, OnIceCandidate,
       AddOrUpdateSink, RemoveSink, BroadcastFrame, CallSink, EndBroadcast, EndProducer,
       OnFrame, vars

LEMMA AskedStep == ASSUME TypeOK, Asked, [Next]_vars PROVE Asked'
<1> USE DEF Asked, WaitsForCause, Go, Return, Peers
<1>1. CASE InitializeSSL
  BY <1>1 DEF InitializeSSL
<1>2. CASE StartThreads
  BY <1>2 DEF StartThreads
<1>3. CASE CreateFactory
  BY <1>3 DEF CreateFactory
<1>4. ASSUME NEW p \in Peers, Initialize(p) PROVE Asked'
  BY <1>4 DEF Initialize, TypeOK
<1>5. CASE AddSyntheticTrack
  BY <1>5 DEF AddSyntheticTrack
<1>6. CASE Ask
  BY <1>6 DEF Ask
<1>7. CASE Wait
  BY <1>7 DEF Wait
<1>8. CASE WaitForFrames
  BY <1>8 DEF WaitForFrames
<1>9. ASSUME NEW p \in Peers, Close(p) PROVE Asked'
  <2>1. pc' \in {"closeCallee", "dropCallee"}
    BY <1>9 DEF Close
  <2>2. QED
    BY <2>1
<1>10. CASE DropCallee
  BY <1>10 DEF DropCallee
<1>11. CASE StopSource
  BY <1>11 DEF StopSource
<1>12. CASE JoinSource
  BY <1>12 DEF JoinSource
<1>13. CASE DropSink
  BY <1>13 DEF DropSink
<1>14. CASE DropThreads
  BY <1>14 DEF DropThreads
<1>15. CASE ~Main
  BY <1>15, OthersLeaveMain, OthersLeaveReply
<1>16. QED
  BY <1>1, <1>2, <1>3, <1>4, <1>5, <1>6, <1>7, <1>8, <1>9, <1>10, <1>11, <1>12, <1>13, <1>14,
     <1>15 DEF Main

LEMMA AskedAlways == Spec => []Asked
<1>1. Init => Asked
  BY DEF Init, Asked, WaitsForCause, Peers
<1>2. IInv /\ Asked /\ [Next]_vars => Asked'
  BY AskedStep DEF IInv
<1>3. QED
  BY <1>1, <1>2, Inductive, PTL DEF Spec

(* main is never left waiting for an answer that nobody owes it, nor for a
   producer that was not stopped. *)
THEOREM WaitsAreAnswered == Spec => []WaitsForCause
<1>1. Asked => WaitsForCause
  BY DEF Asked
<1>2. QED
  BY <1>1, AskedAlways, PTL

(* main comes nearer to its return with every step that it makes, whichever
   call fails and however the callbacks fall between its steps. *)
THEOREM MainComesToItsEnd == Spec => [](Ahead \in Nat) /\ MainAdvances
<1>1. IInv /\ Asked /\ [Next]_vars => [Ahead' <= Ahead /\ (Main => Ahead' < Ahead)]_vars
  <2> SUFFICES ASSUME IInv, Asked, [Next]_vars
               PROVE  Ahead' <= Ahead /\ (Main => Ahead' < Ahead)
    OBVIOUS
  <2>1. Ahead \in Nat /\ Ahead' \in Nat
    <3>1. TypeOK'
      BY TypeStep DEF IInv
    <3>2. Distance[pc'] \in Nat
      <4>1. pc' \in Places
        BY <3>1 DEF TypeOK, Places
      <4>2. \A q \in Places : Distance[q] \in Nat
        BY Distances DEF Places
      <4>3. QED
        BY <4>1, <4>2
    <3>3. Negotiated - step' \in Nat
      <4>1. step' \in 1..7
        BY <3>1 DEF TypeOK, Negotiated
      <4>2. QED
        BY <4>1, Remaining
    <3>4. Ahead' = Distance[pc'] + 2 * (Negotiated - step') + (IF conn'["caller"] = "none" THEN 1 ELSE 0)
      BY DEF Ahead, Distance, Negotiated
    <3>5. QED
      BY <3>2, <3>3, <3>4, AheadIsNumber DEF IInv
  <2>2. CASE Main
    BY <2>1, <2>2, MainNearer DEF IInv
  <2>3. CASE ~Main
    <3>1. UNCHANGED <<pc, step, conn>>
      BY <2>3, OthersLeaveMain
    <3>2. Ahead' = Ahead
      BY <3>1 DEF Ahead, Distance, Negotiated
    <3>3. QED
      BY <2>1, <2>3, <3>2
  <2>4. QED
    BY <2>2, <2>3
<1>2. IInv => TypeOK /\ Ahead \in Nat
  BY AheadIsNumber DEF IInv
<1>3. QED
  BY <1>1, <1>2, Inductive, AskedAlways, PTL DEF Spec, MainAdvances

(* The producer that main joins has a bounded way to its end. *)
THEOREM ProducerEnds == Spec => ProducerRunsOut
<1>1. IInv /\ [Next]_vars => [stop => stop' /\ (Producer => RunsOut)]_vars
  <2> SUFFICES ASSUME IInv, [Next]_vars, stop
               PROVE  stop' /\ (Producer => RunsOut)
    OBVIOUS
  <2>1. stop'
    BY DEF Next, Main, Signaling, Producer, Media, Returned, InitializeSSL, StartThreads,
           CreateFactory, Initialize, AddSyntheticTrack, Ask, Wait, WaitForFrames, Close,
           DropCallee, StopSource, JoinSource, DropSink, DropThreads, Complete,
           OnIceCandidate, AddOrUpdateSink, RemoveSink, BroadcastFrame, CallSink,
           EndBroadcast, EndProducer, OnFrame, vars, mainVars
  <2>2. ASSUME NEW s \in Encoders, CallSink(s) PROVE RunsOut
    <3>1. copy \in [Encoders -> Nat] /\ copy[s] <= 1
      <4>1. copy[s] \in Nat /\ calls[s] \in Nat /\ copy[s] + calls[s] <= 1
        BY DEF IInv, TypeOK, Entries
      <4>2. QED
        BY <4>1 DEF IInv, TypeOK
    <3>2. /\ producer = "sending" /\ producer' = "sending" /\ copy[s] > 0
          /\ copy' = [copy EXCEPT ![s] = @ - 1]
      BY <2>2 DEF CallSink
    <3>3. Left' = Left \ {s} /\ s \in Left
      BY <3>1, <3>2 DEF Left
    <3>4. QED
      BY <3>2, <3>3 DEF RunsOut
  <2>3. BroadcastFrame => FALSE
    BY DEF BroadcastFrame
  <2>4. EndBroadcast \/ EndProducer => RunsOut
    BY DEF EndBroadcast, EndProducer, RunsOut
  <2>5. QED
    BY <2>1, <2>2, <2>3, <2>4 DEF Producer
<1>2. QED
  BY <1>1, Inductive, PTL DEF Spec, ProducerRunsOut

=============================================================================
