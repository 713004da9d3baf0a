--------------------------- MODULE MessageProxyProofs ---------------------------
(***************************************************************************)
(* Theorems about MessageProxy, for any sessions, calls and ids, whatever  *)
(* the ids print like and however many frames are in flight.               *)
(***************************************************************************)
EXTENDS MessageProxy, Integers, TLAPS

-----------------------------------------------------------------------------
(* Sequences of frames *)

\* What is left of a pipe when its first n frames are taken.
LEMMA TakeFrames ==
  ASSUME NEW S, NEW q \in Seq(S), NEW n \in 0 .. Len(q)
  PROVE  LET r == SubSeq(q, n + 1, Len(q))
         IN /\ r \in Seq(S)
            /\ Len(r) = Len(q) - n
            /\ \A i \in 1 .. Len(r) : r[i] = q[i + n] /\ i + n \in 1 .. Len(q)
OBVIOUS

\* What is in a pipe when frames are added.
LEMMA AddFrames ==
  ASSUME NEW S, NEW q \in Seq(S), NEW frames \in Seq(S)
  PROVE  LET r == q \o frames
         IN /\ r \in Seq(S)
            /\ Len(r) = Len(q) + Len(frames)
            /\ \A i \in 1 .. Len(q) : r[i] = q[i]
            /\ \A i \in Len(q) + 1 .. Len(r) :
                 r[i] = frames[i - Len(q)] /\ i - Len(q) \in 1 .. Len(frames)
OBVIOUS

-----------------------------------------------------------------------------
(* Typing *)

\* Answers go out with ids of the map, and leave the responses typed.
LEMMA SendTyping ==
  ASSUME TypeOK, NEW s \in Sessions, NEW answers,
         NEW out \in Deliveries(s, answers), Send(s, out),
         \A c \in answers : c \in Calls /\ Made(c)
  PROVE  got' \in [Calls -> Seq(Sessions \X AnyId)] /\ responses' \in [Sessions -> SUBSET Ids]
<1>1. \A c \in out : c \in answers /\ Restored(s, c) # None
  BY DEF Deliveries
<1>2. \A c \in out : Restored(s, c) \in AnyId
  BY <1>1 DEF TypeOK, Restored, Made, CallRecords
<1>3. \A c \in out : Append(got[c], <<s, Restored(s, c)>>) \in Seq(Sessions \X AnyId)
  BY <1>1, <1>2 DEF TypeOK
<1>4. got' \in [Calls -> Seq(Sessions \X AnyId)]
  BY <1>3 DEF Send, TypeOK
<1> QED
  BY <1>4 DEF Send, TypeOK

LEMMA BroadcastTyping ==
  ASSUME TypeOK, NEW frames \in Seq(SUBSET Calls), Broadcast(frames)
  PROVE  pipe' \in [Sessions -> Seq(SUBSET Calls)]
<1>1. \A s \in Sessions : pipe[s] \o frames \in Seq(SUBSET Calls)
  BY AddFrames DEF TypeOK
<1> QED
  BY <1>1 DEF Broadcast, TypeOK

-----------------------------------------------------------------------------
(* The invariant *)

\* What a session's map holds was put there by its own calls, under their text.
MapsMatch ==
  \A s \in Sessions : \A p \in ProxyIds :
    originalIdMap[s][p] # None => p[1] = s /\ Text[originalIdMap[s][p]] = p[2]

ProxyIdsMatch ==
  \A c \in Calls : Made(c) => call[c].proxyId = <<call[c].session, Text[call[c].id]>>

\* Only calls that were made are asked, under way, or answered.
OnlyMade ==
  \A c \in Calls : ~Made(c) =>
    c \notin asked /\ got[c] = <<>> /\ \A s \in Sessions : ~InPipe(s, c)

\* A call is with the server, or once on its way to its session, or answered.
OnePlace ==
  /\ \A c \in asked : got[c] = <<>> /\ \A s \in Sessions : ~InPipe(s, c)
  /\ \A s \in Sessions : \A i, j \in 1 .. Len(pipe[s]) :
       pipe[s][i] \cap pipe[s][j] # {} => i = j
  /\ \A s \in Sessions : \A c \in Calls :
       InPipe(s, c) /\ call[c].session = s => got[c] = <<>>

Inv ==
  /\ TypeOK
  /\ MapsMatch
  /\ ProxyIdsMatch
  /\ OnlyMade
  /\ OnePlace
  /\ AnswersReachTheirCaller
  /\ AnsweredAtMostOnce
  /\ IdsKeepTheirText

LEMMA InvInit == Init => Inv
BY DEF Init, Inv, TypeOK, MapsMatch, ProxyIdsMatch, OnlyMade, OnePlace, InPipe, Made,
       AnswersReachTheirCaller, AnsweredAtMostOnce, IdsKeepTheirText

-----------------------------------------------------------------------------
(* Every step keeps the invariant *)

\* A new call is nowhere yet; its map entry is under its own text.
LEMMA ForwardInv ==
  ASSUME Inv, NEW s \in Sessions, NEW c \in Calls, Forward(s, c)
  PROVE  Inv'
<1>1. PICK id \in AnyId :
        /\ call' = [call EXCEPT ![c] = [session |-> s, id |-> id, proxyId |-> ProxyId(s, id)]]
        /\ originalIdMap' = [originalIdMap EXCEPT ![s][ProxyId(s, id)] = id]
        /\ responses' = [responses EXCEPT ![s] = @ \cup Awaited(s, id)]
  BY DEF Forward
<1>2. ProxyId(s, id) = <<s, Text[id]>> /\ ProxyId(s, id) \in ProxyIds
  BY ConstantsAssumption DEF ProxyId, ProxyIds
<1>3. ~Made(c) /\ asked' = asked \cup {c} /\ UNCHANGED <<phase, pipe, torn, got>>
  BY DEF Forward
<1>4. TypeOK'
  <2>1. call' \in [Calls -> CallRecords \cup {None}]
    BY <1>1, <1>2 DEF Inv, TypeOK, CallRecords
  <2>2. originalIdMap' \in [Sessions -> [ProxyIds -> AnyId \cup {None}]]
    BY <1>1, <1>2 DEF Inv, TypeOK
  <2>3. responses' \in [Sessions -> SUBSET Ids]
    BY <1>1 DEF Inv, TypeOK, Awaited, AnyId
  <2> QED
    BY <1>3, <2>1, <2>2, <2>3 DEF Inv, TypeOK
<1>5. \A d \in Calls : d # c => call'[d] = call[d] /\ (Made(d)' <=> Made(d))
  BY <1>1 DEF Inv, TypeOK, Made
<1>6. call'[c] = [session |-> s, id |-> id, proxyId |-> <<s, Text[id]>>] /\ Made(c)'
  <2>1. call'[c] = [session |-> s, id |-> id, proxyId |-> <<s, Text[id]>>]
    BY <1>1, <1>2 DEF Inv, TypeOK
  <2>2. call'[c] \in CallRecords
    BY <1>2, <2>1 DEF CallRecords
  <2> QED
    BY <2>1, <2>2, ConstantsAssumption DEF Made
<1>7. got[c] = <<>> /\ (\A t \in Sessions : ~InPipe(t, c))
  BY <1>3 DEF Inv, OnlyMade
<1>8. \A t \in Sessions : \A d \in Calls : InPipe(t, d)' <=> InPipe(t, d)
  BY <1>3 DEF InPipe
<1>9. MapsMatch'
  <2> SUFFICES ASSUME NEW t \in Sessions, NEW p \in ProxyIds, originalIdMap'[t][p] # None
               PROVE  p[1] = t /\ Text[originalIdMap'[t][p]] = p[2]
    BY DEF MapsMatch
  <2>1. CASE t = s /\ p = ProxyId(s, id)
    BY <1>1, <1>2, <2>1 DEF Inv, TypeOK
  <2>2. CASE ~(t = s /\ p = ProxyId(s, id))
    <3>1. originalIdMap'[t][p] = originalIdMap[t][p]
      BY <1>1, <1>2, <2>2 DEF Inv, TypeOK
    <3> QED
      BY <3>1 DEF Inv, MapsMatch
  <2> QED
    BY <2>1, <2>2
<1>10. ProxyIdsMatch'
  BY <1>5, <1>6 DEF Inv, ProxyIdsMatch
<1>11. OnlyMade'
  BY <1>3, <1>5, <1>6, <1>8 DEF Inv, OnlyMade
<1>12. OnePlace'
  <2>1. (\A d \in asked : got[d] = <<>> /\ \A t \in Sessions : ~InPipe(t, d))'
    BY <1>3, <1>7, <1>8 DEF Inv, OnePlace, TypeOK
  <2>2. (\A t \in Sessions : \A i, j \in 1 .. Len(pipe[t]) :
           pipe[t][i] \cap pipe[t][j] # {} => i = j)'
    BY <1>3 DEF Inv, OnePlace
  <2>3. (\A t \in Sessions : \A d \in Calls :
           InPipe(t, d) /\ call[d].session = t => got[d] = <<>>)'
    BY <1>3, <1>5, <1>7, <1>8 DEF Inv, OnePlace
  <2> QED
    BY <2>1, <2>2, <2>3 DEF OnePlace
<1>13. AnswersReachTheirCaller' /\ IdsKeepTheirText'
  <2>1. \A d \in Calls : \A i \in 1 .. Len(got[d]) : d # c
    BY <1>7
  <2> QED
    BY <1>3, <1>5, <2>1 DEF Inv, AnswersReachTheirCaller, IdsKeepTheirText
<1>14. AnsweredAtMostOnce'
  BY <1>3 DEF Inv, AnsweredAtMostOnce
<1> QED
  BY <1>4, <1>9, <1>10, <1>11, <1>12, <1>13, <1>14 DEF Inv

\* What the server writes takes its calls out of asked and puts each into one
\* new frame.
LEMMA BroadcastInv ==
  ASSUME Inv, NEW frames \in Seq(SUBSET Calls), Broadcast(frames),
         NEW answered \in SUBSET asked, asked' = asked \ answered,
         \A i \in 1 .. Len(frames) : frames[i] \subseteq answered,
         \A i, j \in 1 .. Len(frames) : frames[i] \cap frames[j] # {} => i = j
  PROVE  Inv'
<1>1. TypeOK'
  BY BroadcastTyping DEF Inv, TypeOK, Broadcast
<1>2. UNCHANGED <<call, originalIdMap, got>>
  BY DEF Broadcast
<1>3. \A t \in Sessions : pipe'[t] = pipe[t] \o frames \/ pipe'[t] = pipe[t]
  BY DEF Broadcast
<1>4. \A t \in Sessions : \A d \in Calls : InPipe(t, d)' => InPipe(t, d) \/ d \in answered
  <2> SUFFICES ASSUME NEW t \in Sessions, NEW d \in Calls,
                      NEW i \in 1 .. Len(pipe'[t]), d \in pipe'[t][i]
               PROVE  InPipe(t, d) \/ d \in answered
    BY DEF InPipe
  <2>1. CASE pipe'[t] = pipe[t]
    BY <2>1 DEF InPipe
  <2>2. CASE pipe'[t] = pipe[t] \o frames
    <3>1. pipe[t] \in Seq(SUBSET Calls)
      BY DEF Inv, TypeOK
    <3>2. \/ i \in 1 .. Len(pipe[t]) /\ pipe'[t][i] = pipe[t][i]
          \/ i - Len(pipe[t]) \in 1 .. Len(frames) /\ pipe'[t][i] = frames[i - Len(pipe[t])]
      BY <2>2, <3>1
    <3> QED
      BY <3>2 DEF InPipe
  <2> QED
    BY <1>3, <2>1, <2>2
<1>5. OnlyMade'
  BY <1>2, <1>4 DEF Inv, OnlyMade, Made
<1>6. OnePlace'
  <2>1. (\A d \in asked : got[d] = <<>> /\ \A t \in Sessions : ~InPipe(t, d))'
    BY <1>2, <1>4 DEF Inv, OnePlace, TypeOK
  <2>2. (\A t \in Sessions : \A i, j \in 1 .. Len(pipe[t]) :
           pipe[t][i] \cap pipe[t][j] # {} => i = j)'
    <3> SUFFICES ASSUME NEW t \in Sessions,
                        NEW i \in 1 .. Len(pipe'[t]), NEW j \in 1 .. Len(pipe'[t]),
                        pipe'[t][i] \cap pipe'[t][j] # {}
                 PROVE  i = j
      OBVIOUS
    <3>1. CASE pipe'[t] = pipe[t]
      BY <3>1 DEF Inv, OnePlace
    <3>2. CASE pipe'[t] = pipe[t] \o frames
      <4> DEFINE n == Len(pipe[t])
      <4>1. pipe[t] \in Seq(SUBSET Calls)
        BY DEF Inv, TypeOK
      <4>2. \A k \in 1 .. Len(pipe'[t]) :
              \/ k \in 1 .. n /\ pipe'[t][k] = pipe[t][k]
              \/ k - n \in 1 .. Len(frames) /\ pipe'[t][k] = frames[k - n]
        BY <3>2, <4>1
      <4>3. \A k \in 1 .. n, m \in 1 .. Len(frames) : pipe[t][k] \cap frames[m] = {}
        BY DEF Inv, OnePlace, InPipe, TypeOK
      <4>4. PICK d : d \in pipe'[t][i] /\ d \in pipe'[t][j]
        OBVIOUS
      <4>5. CASE i \in 1 .. n /\ pipe'[t][i] = pipe[t][i]
        BY <4>2, <4>3, <4>4, <4>5 DEF Inv, OnePlace
      <4>6. CASE i - n \in 1 .. Len(frames) /\ pipe'[t][i] = frames[i - n]
        <5>1. j - n \in 1 .. Len(frames) /\ pipe'[t][j] = frames[j - n]
          BY <4>2, <4>3, <4>4, <4>6
        <5>2. i - n = j - n
          BY <4>4, <4>6, <5>1
        <5>3. n \in Int
          BY <4>1
        <5> QED
          BY <5>2, <5>3
      <4> QED
        BY <4>2, <4>5, <4>6
    <3> QED
      BY <1>3, <3>1, <3>2
  <2>3. (\A t \in Sessions : \A d \in Calls :
           InPipe(t, d) /\ call[d].session = t => got[d] = <<>>)'
    BY <1>2, <1>4 DEF Inv, OnePlace
  <2> QED
    BY <2>1, <2>2, <2>3 DEF OnePlace
<1> QED
  BY <1>1, <1>2, <1>5, <1>6 DEF Inv, MapsMatch, ProxyIdsMatch, Made,
     AnswersReachTheirCaller, AnsweredAtMostOnce, IdsKeepTheirText

\* ServerWrites and ServerWritesLong.
LEMMA ServerInv ==
  ASSUME Inv, ServerWrites \/ ServerWritesLong
  PROVE  Inv'
<1>1. asked \subseteq Calls /\ None \notin Calls
  BY ConstantsAssumption DEF Inv, TypeOK
<1>2. CASE ServerWrites
  <2>1. PICK c \in asked \cup {None}, e \in asked \cup {None} :
          Broadcast(<<{c, e} \ {None}>>) /\ asked' = asked \ ({c, e} \ {None})
    BY <1>2 DEF ServerWrites
  <2> DEFINE answered == {c, e} \ {None}
             frames == <<answered>>
  <2>2. answered \in SUBSET asked /\ frames \in Seq(SUBSET Calls)
    BY <1>1
  <2>3. /\ \A i \in 1 .. Len(frames) : frames[i] \subseteq answered
        /\ \A i, j \in 1 .. Len(frames) : frames[i] \cap frames[j] # {} => i = j
    OBVIOUS
  <2> HIDE DEF answered, frames
  <2> QED
    BY <2>1, <2>2, <2>3, BroadcastInv DEF answered, frames
<1>3. CASE ServerWritesLong
  <2>1. PICK c \in asked : Broadcast(<<{}, {}>>) /\ asked' = asked \ {c}
    BY <1>3 DEF ServerWritesLong
  <2> DEFINE answered == {c}
             frames == <<{}, {}>>
  <2>2. answered \in SUBSET asked /\ frames \in Seq(SUBSET Calls)
    BY <1>1
  <2>3. /\ \A i \in 1 .. Len(frames) : frames[i] \subseteq answered
        /\ \A i, j \in 1 .. Len(frames) : frames[i] \cap frames[j] # {} => i = j
    OBVIOUS
  <2> HIDE DEF answered, frames
  <2> QED
    BY <2>1, <2>2, <2>3, BroadcastInv DEF answered, frames
<1> QED
  BY <1>2, <1>3

\* What goes out on s was on its way to s, so its call is one of s and had no
\* answer; and a frame is taken as it is read.
LEMMA ReceiveInv ==
  ASSUME Inv, NEW s \in Sessions, NEW n \in 0 .. Len(pipe[s]), NEW tear \in BOOLEAN,
         Receive(s, n, tear)
  PROVE  Inv'
<1> DEFINE answers == IF torn[s] THEN {} ELSE Answers(s, n)
<1>1. PICK out \in Deliveries(s, answers) : Send(s, out)
  BY DEF Receive
<1>2. \A c \in answers : \E i \in 1 .. n : c \in pipe[s][i]
  BY DEF Answers
<1>3. pipe[s] \in Seq(SUBSET Calls)
  BY DEF Inv, TypeOK
<1>4. \A c \in answers : c \in Calls /\ InPipe(s, c) /\ Made(c)
  <2> SUFFICES ASSUME NEW c \in answers
               PROVE  c \in Calls /\ InPipe(s, c) /\ Made(c)
    OBVIOUS
  <2>1. PICK i \in 1 .. n : c \in pipe[s][i]
    BY <1>2
  <2>2. i \in 1 .. Len(pipe[s])
    BY <1>3
  <2>3. c \in Calls /\ InPipe(s, c)
    BY <1>3, <2>1, <2>2 DEF InPipe
  <2> QED
    BY <2>3 DEF Inv, OnlyMade
<1>5. \A c \in out : c \in answers /\ Restored(s, c) # None
  BY <1>1 DEF Deliveries
<1> HIDE DEF answers
<1>6. \A c \in out : call[c].session = s /\ Text[Restored(s, c)] = Text[call[c].id]
  <2> SUFFICES ASSUME NEW c \in out
               PROVE  call[c].session = s /\ Text[Restored(s, c)] = Text[call[c].id]
    OBVIOUS
  <2>1. c \in Calls /\ Made(c) /\ call[c] \in CallRecords
    BY <1>4, <1>5 DEF Inv, TypeOK, Made
  <2>2. call[c].proxyId \in ProxyIds
    BY <2>1 DEF CallRecords
  <2>3. call[c].proxyId = <<call[c].session, Text[call[c].id]>>
    BY <2>1 DEF Inv, ProxyIdsMatch
  <2>4. call[c].proxyId[1] = s /\ Text[Restored(s, c)] = call[c].proxyId[2]
    BY <1>5, <2>2 DEF Inv, MapsMatch, Restored
  <2> QED
    BY <2>3, <2>4
<1>7. \A c \in out : c \in Calls /\ got[c] = <<>>
  BY <1>4, <1>5, <1>6 DEF Inv, OnePlace
<1>8. UNCHANGED <<phase, call, originalIdMap, asked>>
  BY DEF Receive
<1>9. \A c \in Calls : got'[c] = IF c \in out THEN <<(<<s, Restored(s, c)>>)>> ELSE got[c]
  <2>1. \A x : Append(<<>>, x) = <<x>>
    OBVIOUS
  <2>2. \A c \in out : Append(got[c], <<s, Restored(s, c)>>) = <<(<<s, Restored(s, c)>>)>>
    BY <1>7, <2>1
  <2> QED
    BY <1>1, <2>2 DEF Send
<1>10. \A t \in Sessions : t # s => pipe'[t] = pipe[t]
  BY DEF Receive, Inv, TypeOK
<1>11. pipe'[s] = SubSeq(pipe[s], n + 1, Len(pipe[s]))
  BY DEF Receive, Inv, TypeOK
<1>12. /\ pipe'[s] \in Seq(SUBSET Calls)
       /\ \A i \in 1 .. Len(pipe'[s]) :
            pipe'[s][i] = pipe[s][i + n] /\ i + n \in 1 .. Len(pipe[s])
  BY <1>3, <1>11, TakeFrames
<1>13. \A t \in Sessions : \A c \in Calls : InPipe(t, c)' => InPipe(t, c)
  BY <1>10, <1>12 DEF InPipe
\* The calls of the frames that were read are in no other frame.
<1>14. \A c \in out : ~InPipe(s, c)'
  <2> SUFFICES ASSUME NEW c \in out, InPipe(s, c)'
               PROVE  FALSE
    OBVIOUS
  <2>1. PICK i \in 1 .. Len(pipe'[s]) : c \in pipe'[s][i]
    BY DEF InPipe
  <2>2. PICK j \in 1 .. n : c \in pipe[s][j]
    BY <1>2, <1>5
  <2>3. i + n \in 1 .. Len(pipe[s]) /\ j \in 1 .. Len(pipe[s]) /\ i + n # j
    BY <1>3, <1>12
  <2> QED
    BY <1>12, <2>1, <2>2, <2>3 DEF Inv, OnePlace
<1>15. TypeOK'
  <2>1. got' \in [Calls -> Seq(Sessions \X AnyId)] /\ responses' \in [Sessions -> SUBSET Ids]
    BY <1>1, <1>4, SendTyping DEF Inv
  <2>2. pipe' \in [Sessions -> Seq(SUBSET Calls)] /\ torn' \in [Sessions -> BOOLEAN]
    BY <1>11, <1>12 DEF Receive, Inv, TypeOK
  <2> QED
    BY <1>8, <2>1, <2>2 DEF Inv, TypeOK
<1>16. MapsMatch' /\ ProxyIdsMatch'
  BY <1>8 DEF Inv, MapsMatch, ProxyIdsMatch, Made
<1>17. OnlyMade'
  BY <1>4, <1>5, <1>8, <1>9, <1>13 DEF Inv, OnlyMade, Made
<1>18. OnePlace'
  <2>1. (\A c \in asked : got[c] = <<>> /\ \A t \in Sessions : ~InPipe(t, c))'
    <3>1. \A c \in asked : c \in Calls /\ c \notin out
      BY <1>4, <1>5 DEF Inv, OnePlace, TypeOK
    <3> QED
      BY <1>8, <1>9, <1>13, <3>1 DEF Inv, OnePlace
  <2>2. (\A t \in Sessions : \A i, j \in 1 .. Len(pipe[t]) :
           pipe[t][i] \cap pipe[t][j] # {} => i = j)'
    <3>1. \A i, j \in 1 .. Len(pipe'[s]) : pipe'[s][i] \cap pipe'[s][j] # {} => i = j
      <4> SUFFICES ASSUME NEW i \in 1 .. Len(pipe'[s]), NEW j \in 1 .. Len(pipe'[s]),
                          pipe'[s][i] \cap pipe'[s][j] # {}
                   PROVE  i = j
        OBVIOUS
      <4>1. i + n = j + n
        BY <1>12 DEF Inv, OnePlace
      <4> QED
        BY <4>1
    <3> QED
      BY <1>10, <3>1 DEF Inv, OnePlace
  <2>3. (\A t \in Sessions : \A c \in Calls :
           InPipe(t, c) /\ call[c].session = t => got[c] = <<>>)'
    BY <1>6, <1>8, <1>9, <1>13, <1>14 DEF Inv, OnePlace
  <2> QED
    BY <2>1, <2>2, <2>3 DEF OnePlace
<1>19. AnswersReachTheirCaller' /\ AnsweredAtMostOnce' /\ IdsKeepTheirText'
  <2> SUFFICES ASSUME NEW c \in Calls
               PROVE  /\ \A i \in 1 .. Len(got'[c]) : got'[c][i][1] = call'[c].session
                      /\ \A i \in 1 .. Len(got'[c]) : Text[got'[c][i][2]] = Text[call'[c].id]
                      /\ Len(got'[c]) <= 1
    BY DEF AnswersReachTheirCaller, AnsweredAtMostOnce, IdsKeepTheirText
  <2>1. CASE c \in out
    <3>1. got'[c] = <<(<<s, Restored(s, c)>>)>>
      BY <1>9, <2>1
    <3>2. Len(got'[c]) = 1 /\ got'[c][1] = <<s, Restored(s, c)>>
      BY <3>1
    <3> QED
      BY <1>6, <1>8, <2>1, <3>2
  <2>2. CASE c \notin out
    BY <1>8, <1>9, <2>2 DEF Inv, AnswersReachTheirCaller, AnsweredAtMostOnce, IdsKeepTheirText
  <2> QED
    BY <2>1, <2>2
<1> QED
  BY <1>15, <1>16, <1>17, <1>18, <1>19 DEF Inv

\* The other steps of a session only take frames and responses away.
LEMMA SessionInv ==
  ASSUME Inv, NEW s \in Sessions,
         Start(s) \/ CloseSse(s) \/ CloseStreamable(s) \/ HangUp(s)
  PROVE  Inv'
<1>1. UNCHANGED <<call, originalIdMap, asked, got>>
  BY DEF Start, CloseSse, CloseStreamable, HangUp
<1>2. TypeOK'
  <2>1. CASE Start(s)
    BY <2>1 DEF Inv, TypeOK, Start
  <2>2. CASE CloseSse(s)
    <3>1. <<>> \in Seq(SUBSET Calls)
      OBVIOUS
    <3> QED
      BY <2>2, <3>1 DEF Inv, TypeOK, CloseSse
  <2>3. CASE CloseStreamable(s)
    BY <2>3 DEF Inv, TypeOK, CloseStreamable
  <2>4. CASE HangUp(s)
    <3>1. PICK id \in responses[s] : responses' = [responses EXCEPT ![s] = @ \ {id}]
      BY <2>4 DEF HangUp
    <3>2. responses[s] \ {id} \in SUBSET Ids
      BY DEF Inv, TypeOK
    <3> QED
      BY <2>4, <3>1, <3>2 DEF Inv, TypeOK, HangUp
  <2> QED
    BY <2>1, <2>2, <2>3, <2>4
<1>3. \A t \in Sessions : pipe'[t] = pipe[t] \/ pipe'[t] = <<>>
  BY DEF Inv, TypeOK, Start, CloseSse, CloseStreamable, HangUp
<1>4. \A t \in Sessions : \A c \in Calls : InPipe(t, c)' => InPipe(t, c)
  BY <1>3 DEF InPipe
<1>5. OnePlace'
  <2>1. (\A c \in asked : got[c] = <<>> /\ \A t \in Sessions : ~InPipe(t, c))'
    BY <1>1, <1>4 DEF Inv, OnePlace, TypeOK
  <2>2. (\A t \in Sessions : \A i, j \in 1 .. Len(pipe[t]) :
           pipe[t][i] \cap pipe[t][j] # {} => i = j)'
    <3> SUFFICES ASSUME NEW t \in Sessions
                 PROVE  \A i, j \in 1 .. Len(pipe'[t]) :
                          pipe'[t][i] \cap pipe'[t][j] # {} => i = j
      OBVIOUS
    <3>1. CASE pipe'[t] = pipe[t]
      BY <3>1 DEF Inv, OnePlace
    <3>2. CASE pipe'[t] = <<>>
      BY <3>2
    <3> QED
      BY <1>3, <3>1, <3>2
  <2>3. (\A t \in Sessions : \A c \in Calls :
           InPipe(t, c) /\ call[c].session = t => got[c] = <<>>)'
    BY <1>1, <1>4 DEF Inv, OnePlace
  <2> QED
    BY <2>1, <2>2, <2>3 DEF OnePlace
<1>6. OnlyMade'
  BY <1>1, <1>4 DEF Inv, OnlyMade, Made
<1> QED
  BY <1>1, <1>2, <1>5, <1>6 DEF Inv, MapsMatch, ProxyIdsMatch, Made,
     AnswersReachTheirCaller, AnsweredAtMostOnce, IdsKeepTheirText

LEMMA InvStep == Inv /\ [Next]_vars => Inv'
<1> SUFFICES ASSUME Inv, [Next]_vars
             PROVE  Inv'
  OBVIOUS
<1>1. CASE \E s \in Sessions : Start(s) \/ CloseSse(s) \/ CloseStreamable(s) \/ HangUp(s)
  BY <1>1, SessionInv
<1>2. CASE \E s \in Sessions : Chunk(s)
  <2>1. PICK s \in Sessions : Chunk(s)
    BY <1>2
  <2>2. PICK n \in 0 .. Len(pipe[s]), tear \in BOOLEAN : Receive(s, n, tear)
    BY <2>1 DEF Chunk
  <2> QED
    BY <2>2, ReceiveInv
<1>3. CASE \E s \in Sessions : \E c \in Calls : Forward(s, c)
  BY <1>3, ForwardInv
<1>4. CASE ServerWrites \/ ServerWritesLong
  BY <1>4, ServerInv
<1>5. CASE UNCHANGED vars
  BY <1>5 DEF vars, Inv, TypeOK, MapsMatch, ProxyIdsMatch, OnlyMade, OnePlace, InPipe, Made,
     AnswersReachTheirCaller, AnsweredAtMostOnce, IdsKeepTheirText
<1> QED
  BY <1>1, <1>2, <1>3, <1>4, <1>5 DEF Next

\* The invariant holds of every run.
LEMMA Invariance == Spec => []Inv
BY InvInit, InvStep, PTL DEF Spec

-----------------------------------------------------------------------------
(* What is lost *)

\* The map knows every call, or a later one that its session gave the same text.
MapsHold ==
  \A c \in Calls : Made(c) =>
    \E d \in Calls : /\ Made(d) /\ call[d].proxyId = call[c].proxyId
                     /\ Restored(call[c].session, c) = call[d].id

LEMMA MapsHoldStep ==
  ASSUME Inv, Inv', MapsHold, [Next]_vars
  PROVE  MapsHold'
<1>1. CASE UNCHANGED <<call, originalIdMap>>
  <2>1. \A t, c : Restored(t, c)' = Restored(t, c) /\ Made(c)' = Made(c)
    BY <1>1 DEF Restored, Made
  <2> QED
    BY <1>1, <2>1 DEF MapsHold
<1>2. ASSUME NEW s \in Sessions, NEW c \in Calls, Forward(s, c) PROVE MapsHold'
  <2>1. PICK id \in AnyId :
          /\ call' = [call EXCEPT ![c] = [session |-> s, id |-> id, proxyId |-> ProxyId(s, id)]]
          /\ originalIdMap' = [originalIdMap EXCEPT ![s][ProxyId(s, id)] = id]
    BY <1>2 DEF Forward
  <2>2. ProxyId(s, id) \in ProxyIds
    BY ConstantsAssumption DEF ProxyId, ProxyIds
  <2>3. /\ call'[c] = [session |-> s, id |-> id, proxyId |-> ProxyId(s, id)]
        /\ \A d \in Calls : d # c => call'[d] = call[d]
        /\ originalIdMap'[s][ProxyId(s, id)] = id
        /\ \A t \in Sessions : \A p \in ProxyIds :
             ~(t = s /\ p = ProxyId(s, id)) => originalIdMap'[t][p] = originalIdMap[t][p]
    BY <2>1, <2>2 DEF Inv, TypeOK
  <2>4. Made(c)' /\ ~Made(c)
    <3>1. call'[c] \in CallRecords
      BY <2>2, <2>3 DEF CallRecords
    <3> QED
      BY <1>2, <3>1, ConstantsAssumption DEF Forward, Made
  <2> SUFFICES ASSUME NEW d \in Calls, Made(d)'
               PROVE  \E e \in Calls :
                        /\ Made(e)' /\ call'[e].proxyId = call'[d].proxyId
                        /\ originalIdMap'[call'[d].session][call'[d].proxyId] = call'[e].id
    BY DEF MapsHold, Restored
  <2>5. /\ call'[d].session \in Sessions /\ call'[d].proxyId \in ProxyIds
        /\ call'[d].proxyId = <<call'[d].session, Text[call'[d].id]>>
    BY DEF Inv, ProxyIdsMatch, Made, TypeOK, CallRecords
  <2>6. CASE call'[d].proxyId = ProxyId(s, id)
    <3>1. call'[d].session = s
      BY <2>5, <2>6 DEF ProxyId
    <3> QED
      BY <2>3, <2>4, <2>6, <3>1
  <2>7. CASE call'[d].proxyId # ProxyId(s, id)
    <3>1. d # c /\ call'[d] = call[d]
      BY <2>3, <2>7
    <3>2. Made(d)
      BY <3>1 DEF Made
    <3>3. PICK e \in Calls : /\ Made(e) /\ call[e].proxyId = call[d].proxyId
                             /\ Restored(call[d].session, d) = call[e].id
      BY <3>2 DEF MapsHold
    <3>4. e # c /\ call'[e] = call[e] /\ Made(e)'
      BY <2>3, <2>4, <3>3 DEF Made
    <3>5. originalIdMap'[call'[d].session][call'[d].proxyId] = call[e].id
      BY <2>3, <2>5, <2>7, <3>1, <3>3 DEF Restored
    <3> QED
      BY <3>1, <3>3, <3>4, <3>5
  <2> QED
    BY <2>6, <2>7
<1> QED
  BY <1>1, <1>2 DEF Next, Start, Chunk, Receive, CloseSse, CloseStreamable, HangUp,
     ServerWrites, ServerWritesLong, Broadcast, vars

\* The answers of a chunk that begins with a frame go out: on SSE all that are the
\* session's; on the streamable transport those whose response is open and whose id
\* no other prints like.
LEMMA AnswersGoOut ==
  ASSUME Inv, MapsHold, NEW s \in Sessions, NEW n \in 0 .. Len(pipe[s]),
         NEW out \in Deliveries(s, Answers(s, n)),
         NEW c \in Answers(s, n), c \in Calls, Made(c), call[c].session = s,
         s \in SseSessions \/ (call[c].id \in responses[s] /\ ~SharesProxyId(c))
  PROVE  c \in out
<1>1. PICK d \in Calls : /\ Made(d) /\ call[d].proxyId = call[c].proxyId
                         /\ Restored(s, c) = call[d].id
  BY DEF MapsHold
<1>2. Restored(s, c) # None
  <2>1. call[d].id \in AnyId
    BY <1>1 DEF Inv, TypeOK, Made, CallRecords
  <2> QED
    BY <1>1, <2>1, ConstantsAssumption
<1>3. CASE s \in SseSessions
  BY <1>2, <1>3 DEF Deliveries
<1>4. CASE s \notin SseSessions
  <2>1. call[c].id \in responses[s] /\ ~SharesProxyId(c)
    BY <1>4
  <2>2. Restored(s, c) = call[c].id
    BY <1>1, <2>1 DEF SharesProxyId
  <2>3. PICK e \in out : \A f \in out : (Restored(s, f) = Restored(s, c)) <=> (f = e)
    BY <1>2, <1>4, <2>1, <2>2 DEF Deliveries
  <2>4. e \in Answers(s, n) /\ Restored(s, e) # None /\ Restored(s, e) = call[c].id
    BY <1>4, <2>2, <2>3 DEF Deliveries
  <2>5. e \in Calls /\ Made(e)
    <3>1. pipe[s] \in Seq(SUBSET Calls)
      BY DEF Inv, TypeOK
    <3>2. PICK i \in 1 .. n : e \in pipe[s][i]
      BY <2>4 DEF Answers
    <3>3. i \in 1 .. Len(pipe[s])
      BY <3>1
    <3>4. e \in Calls /\ InPipe(s, e)
      BY <3>1, <3>2, <3>3 DEF InPipe
    <3> QED
      BY <3>4 DEF Inv, OnlyMade
  <2>6. call[e].proxyId = call[c].proxyId
    <3>1. /\ call[e].proxyId \in ProxyIds
          /\ call[e].proxyId = <<call[e].session, Text[call[e].id]>>
          /\ call[c].proxyId = <<s, Text[call[c].id]>>
      BY <2>5 DEF Inv, TypeOK, Made, CallRecords, ProxyIdsMatch
    <3>2. call[e].proxyId[1] = s /\ call[e].proxyId[2] = Text[call[c].id]
      BY <2>4, <3>1 DEF Inv, MapsMatch, Restored
    <3> QED
      BY <3>1, <3>2
  <2>7. e = c
    BY <2>1, <2>5, <2>6 DEF SharesProxyId
  <2> QED
    BY <2>3, <2>7
<1> QED
  BY <1>3, <1>4

\* What a chunk leaves of a pipe: its first n frames are read.
LEMMA ReceivePending ==
  ASSUME Inv, MapsHold, NEW t \in Sessions, NEW n \in 0 .. Len(pipe[t]), NEW tear \in BOOLEAN,
         Receive(t, n, tear),
         NEW c \in Calls, NEW s \in Sessions, Made(c), call[c].session = s,
         Pending(s, c), c \in asked \/ ~torn[s],
         s \in SseSessions \/ (call[c].id \in responses[s] /\ ~SharesProxyId(c))
  PROVE  Pending(s, c)'
<1>1. PICK out \in Deliveries(t, IF torn[t] THEN {} ELSE Answers(t, n)) : Send(t, out)
  BY DEF Receive
<1>2. got'[c] = IF c \in out THEN Append(got[c], <<t, Restored(t, c)>>) ELSE got[c]
  BY <1>1 DEF Send
<1>3. got[c] # <<>> \/ c \in out => got'[c] # <<>>
  <2>1. got[c] \in Seq(Sessions \X AnyId)
    BY DEF Inv, TypeOK
  <2>2. \A x : Append(got[c], x) # <<>>
    BY <2>1
  <2> QED
    BY <1>2, <2>2
<1>4. asked' = asked
  BY DEF Receive
<1>5. CASE c \in asked \/ got[c] # <<>> \/ c \in out
  BY <1>3, <1>4, <1>5 DEF Pending
<1>6. CASE c \notin asked /\ got[c] = <<>> /\ c \notin out
  <2>1. InPipe(s, c) /\ ~torn[s]
    BY <1>6 DEF Pending
  <2>2. CASE t # s
    <3>1. pipe'[s] = pipe[s]
      BY <2>2 DEF Receive, Inv, TypeOK
    <3> QED
      BY <2>1, <3>1 DEF Pending, InPipe
  <2>3. CASE t = s
    <3>1. pipe[s] \in Seq(SUBSET Calls) /\ n \in 0 .. Len(pipe[s])
      BY <2>3 DEF Inv, TypeOK
    <3>2. PICK i \in 1 .. Len(pipe[s]) : c \in pipe[s][i]
      BY <2>1 DEF InPipe
    <3>3. ~(i \in 1 .. n)
      <4> SUFFICES ASSUME i \in 1 .. n PROVE FALSE
        OBVIOUS
      <4>1. c \in Answers(s, n)
        BY <3>2 DEF Answers
      <4>2. out \in Deliveries(s, Answers(s, n))
        BY <1>1, <2>1, <2>3
      <4>3. c \in out
        BY <3>1, <4>1, <4>2, AnswersGoOut
      <4> QED
        BY <1>6, <4>3
    <3>4. pipe'[s] = SubSeq(pipe[s], n + 1, Len(pipe[s]))
      BY <2>3 DEF Receive, Inv, TypeOK
    <3>5. /\ Len(pipe'[s]) = Len(pipe[s]) - n
          /\ \A k \in 1 .. Len(pipe'[s]) : pipe'[s][k] = pipe[s][k + n]
      BY <3>1, <3>4, TakeFrames
    <3> DEFINE k == i - n
    <3>6. k \in 1 .. Len(pipe'[s]) /\ k + n = i
      BY <3>1, <3>3, <3>5
    <3> HIDE DEF k
    <3>7. c \in pipe'[s][k]
      BY <3>2, <3>5, <3>6
    <3> QED
      BY <3>6, <3>7 DEF Pending, InPipe
  <2> QED
    BY <2>2, <2>3
<1> QED
  BY <1>5, <1>6

\* What the server writes goes to every session that is heard.
LEMMA WritesPending ==
  ASSUME Inv, ServerWrites, NEW c \in Calls, NEW s \in Sessions, Listening(s), Pending(s, c)
  PROVE  Pending(s, c)'
<1>1. PICK d \in asked \cup {None}, e \in asked \cup {None} :
        Broadcast(<<{d, e} \ {None}>>) /\ asked' = asked \ ({d, e} \ {None})
  BY DEF ServerWrites
<1> DEFINE answered == {d, e} \ {None}
<1>2. answered \in SUBSET Calls
  BY DEF Inv, TypeOK
<1> HIDE DEF answered
<1>3. got' = got /\ pipe'[s] = pipe[s] \o <<answered>>
  BY <1>1 DEF Broadcast, answered
<1>4. pipe[s] \in Seq(SUBSET Calls)
  BY DEF Inv, TypeOK
<1>5. /\ Len(pipe'[s]) = Len(pipe[s]) + 1
      /\ \A i \in 1 .. Len(pipe[s]) : pipe'[s][i] = pipe[s][i]
      /\ pipe'[s][Len(pipe[s]) + 1] = answered
  BY <1>2, <1>3, <1>4
<1>6. CASE c \in answered
  <2>1. Len(pipe[s]) + 1 \in 1 .. Len(pipe'[s])
    BY <1>4, <1>5
  <2> QED
    BY <1>5, <1>6, <2>1 DEF Pending, InPipe
<1>7. CASE c \notin answered
  <2>1. c \in asked => c \in asked'
    BY <1>1, <1>7 DEF answered
  <2>2. InPipe(s, c) => InPipe(s, c)'
    BY <1>4, <1>5 DEF InPipe
  <2> QED
    BY <1>3, <2>1, <2>2 DEF Pending
<1> QED
  BY <1>6, <1>7

LEMMA LostStep ==
  ASSUME Inv, MapsHold, [Next]_vars,
         NEW c \in Calls, NEW s \in Sessions, Made(c), call[c].session = s,
         Listening(s)', Pending(s, c), ~Pending(s, c)'
  PROVE  \/ c \in asked /\ ServerWritesLong
         \/ c \notin asked /\ torn[s]
         \/ s \in StreamSessions /\ (call[c].id \notin responses[s] \/ SharesProxyId(c))
<1>1. ASSUME NEW t \in Sessions, Start(t) \/ CloseStreamable(t) \/ HangUp(t) PROVE FALSE
  BY <1>1 DEF Start, CloseStreamable, HangUp, Pending, InPipe
<1>2. ASSUME NEW t \in Sessions, CloseSse(t) PROVE FALSE
  <2>1. t # s
    <3>1. t = s => phase'[s] = "closed" /\ s \notin StreamSessions
      BY <1>2, ConstantsAssumption DEF CloseSse, Inv, TypeOK
    <3> QED
      BY <3>1 DEF Listening
  <2>2. pipe'[s] = pipe[s] /\ asked' = asked /\ got' = got
    BY <1>2, <2>1 DEF CloseSse, Inv, TypeOK
  <2> QED
    BY <2>2 DEF Pending, InPipe
<1>3. ASSUME NEW t \in Sessions, NEW d \in Calls, Forward(t, d) PROVE FALSE
  BY <1>3 DEF Forward, Pending, InPipe
<1>4. CASE ServerWrites
  <2>1. Listening(s)
    BY <1>4 DEF ServerWrites, Broadcast, Listening
  <2> QED
    BY <1>4, <2>1, WritesPending
<1>5. CASE ServerWritesLong
  <2>1. c \notin asked => FALSE
    <3> SUFFICES ASSUME c \notin asked PROVE Pending(s, c)'
      OBVIOUS
    <3>1. got' = got /\ (pipe'[s] = pipe[s] \o <<{}, {}>> \/ pipe'[s] = pipe[s])
      BY <1>5 DEF ServerWritesLong, Broadcast
    <3>2. pipe[s] \in Seq(SUBSET Calls) /\ <<{}, {}>> \in Seq(SUBSET Calls)
      BY DEF Inv, TypeOK
    <3>3. InPipe(s, c) => InPipe(s, c)'
      <4>1. \A i \in 1 .. Len(pipe[s]) : i \in 1 .. Len(pipe'[s]) /\ pipe'[s][i] = pipe[s][i]
        BY <3>1, <3>2
      <4> QED
        BY <4>1 DEF InPipe
    <3> QED
      BY <3>1, <3>3 DEF Pending
  <2> QED
    BY <1>5, <2>1
<1>6. ASSUME NEW t \in Sessions, Chunk(t)
      PROVE  \/ c \notin asked /\ torn[s]
             \/ s \in StreamSessions /\ (call[c].id \notin responses[s] \/ SharesProxyId(c))
  <2>1. PICK n \in 0 .. Len(pipe[t]), tear \in BOOLEAN : Receive(t, n, tear)
    BY <1>6 DEF Chunk
  <2>2. s \in SseSessions \/ s \in StreamSessions
    BY DEF Sessions
  <2> QED
    BY <2>1, <2>2, ReceivePending
<1>7. CASE UNCHANGED vars
  BY <1>7 DEF vars, Pending, InPipe
<1> QED
  BY <1>1, <1>2, <1>3, <1>4, <1>5, <1>6, <1>7 DEF Next

-----------------------------------------------------------------------------
(* The contract *)

Simulated == [Contract!Next]_(Contract!vars)

LEMMA StutterSimulates ==
  ASSUME UNCHANGED <<call, asked, pipe, got>>
  PROVE  Simulated
<1>1. \A c : Made(c)' = Made(c)
  BY DEF Made
<1>2. \A t, c : InPipe(t, c)' = InPipe(t, c)
  BY DEF InPipe
<1>3. Underway' = Underway
  BY <1>1, <1>2 DEF Underway
<1>4. \A t, c, d : Earlier(t, c, d)' = Earlier(t, c, d)
  BY DEF Earlier
<1>5. Ordered' = Ordered
  BY <1>3, <1>4 DEF Ordered
<1>6. Callers' = Callers /\ SentOn' = SentOn
  BY <1>1 DEF Callers, SentOn
<1> QED
  BY <1>3, <1>5, <1>6 DEF Simulated, Contract!vars

\* A new call is asked.
LEMMA ForwardSimulates ==
  ASSUME Inv, Inv', NEW s \in Sessions, NEW c \in Calls, Forward(s, c)
  PROVE  Simulated
<1>1. /\ \A d \in Calls \ {c} : call'[d] = call[d] /\ (Made(d)' <=> Made(d))
      /\ call'[c].session = s /\ Made(c)' /\ ~Made(c)
  <2>1. PICK id \in AnyId :
          call' = [call EXCEPT ![c] = [session |-> s, id |-> id, proxyId |-> ProxyId(s, id)]]
    BY DEF Forward
  <2>2. /\ call'[c] = [session |-> s, id |-> id, proxyId |-> ProxyId(s, id)]
        /\ \A d \in Calls \ {c} : call'[d] = call[d]
    BY <2>1 DEF Inv, TypeOK
  <2>3. call'[c] # None
    <3>1. call'[c] \in CallRecords
      BY <2>2, ConstantsAssumption DEF CallRecords, ProxyIds, ProxyId
    <3> QED
      BY <3>1, ConstantsAssumption
  <2> QED
    BY <2>2, <2>3 DEF Forward, Made
<1>2. asked' = asked \cup {c} /\ pipe' = pipe /\ got' = got
  BY DEF Forward
<1>3. \A t \in Sessions : ~InPipe(t, c)
  BY <1>1 DEF Inv, OnlyMade
<1>4. \A t, d : InPipe(t, d)' = InPipe(t, d)
  BY <1>2 DEF InPipe
<1>5. c \notin Underway /\ c \notin Underway'
  BY <1>1, <1>3, <1>4 DEF Underway
<1>6. Underway' = Underway
  BY <1>1, <1>4, <1>5 DEF Underway
<1>7. \A t, d, e : Earlier(t, d, e)' = Earlier(t, d, e)
  BY <1>2 DEF Earlier
<1>8. Ordered' = Ordered
  <2>1. \A d \in Underway : call'[d] = call[d]
    BY <1>1, <1>5 DEF Underway
  <2> QED
    BY <1>6, <1>7, <2>1 DEF Ordered
<1>9. Callers[c] = None /\ Callers' = [Callers EXCEPT ![c] = s] /\ SentOn' = SentOn
  BY <1>1, <1>2 DEF Callers, SentOn
<1>10. Contract!Ask(s, c)
  BY <1>2, <1>6, <1>8, <1>9 DEF Contract!Ask
<1> QED
  BY <1>10 DEF Simulated, Contract!Next

\* What the server writes is answered; it is kept where its session is heard.
LEMMA WritesSimulate ==
  ASSUME Inv, NEW frames \in Seq(SUBSET Calls), Broadcast(frames),
         NEW answered \in SUBSET asked, asked' = asked \ answered,
         frames = <<answered>> \/ \A i \in 1 .. Len(frames) : frames[i] = {}
  PROVE  Simulated
<1> DEFINE heard == {c \in answered : Listening(call[c].session)}
           kept == IF frames = <<answered>> THEN heard ELSE {}
<1>0. asked \subseteq Calls /\ \A c \in asked : Made(c) /\ c \notin Underway
  BY DEF Inv, TypeOK, OnlyMade, OnePlace, Underway, Made, CallRecords
<1>1. \A t \in Sessions : pipe'[t] = IF Listening(t) THEN pipe[t] \o frames ELSE pipe[t]
  BY DEF Broadcast
<1>2. call' = call /\ got' = got
  BY DEF Broadcast
<1> DEFINE n(t) == Len(pipe[t])
           r(t) == pipe[t] \o frames
<1>h. ASSUME NEW t \in Sessions
      PROVE  /\ n(t) \in Nat /\ Len(r(t)) = n(t) + Len(frames)
             /\ \A i \in 1 .. n(t) : r(t)[i] = pipe[t][i]
             /\ \A i \in n(t) + 1 .. Len(r(t)) :
                  r(t)[i] = frames[i - n(t)] /\ i - n(t) \in 1 .. Len(frames)
  <2>1. pipe[t] \in Seq(SUBSET Calls)
    BY DEF Inv, TypeOK
  <2>2. n(t) \in Nat
    BY <2>1
  <2> QED
    BY <2>1, <2>2, AddFrames
<1>l. Len(frames) \in Nat /\ (frames = <<answered>> => Len(frames) = 1 /\ frames[1] = answered)
  OBVIOUS
<1>r. \A t \in Sessions : (Listening(t) /\ pipe'[t] = r(t)) \/ (~Listening(t) /\ pipe'[t] = pipe[t])
  BY <1>1
<1> HIDE DEF r
<1>3. ASSUME NEW t \in Sessions
      PROVE  /\ n(t) \in Nat /\ Len(pipe'[t]) \in Nat
             /\ n(t) <= Len(pipe'[t])
             /\ \A i \in 1 .. n(t) : pipe'[t][i] = pipe[t][i]
  <2>1. CASE pipe'[t] = r(t)
    BY <1>h, <1>l, <2>1
  <2>2. CASE pipe'[t] = pipe[t]
    BY <1>h, <2>2
  <2> QED
    BY <1>r, <2>1, <2>2
\* What is new in a pipe.
<1>4. ASSUME NEW t \in Sessions, NEW i \in 1 .. Len(pipe'[t]), i > n(t), NEW c \in pipe'[t][i]
      PROVE  /\ Listening(t) /\ frames = <<answered>> /\ c \in answered
             /\ i = n(t) + 1
  <2>1. Listening(t) /\ pipe'[t] = r(t)
    <3>1. pipe'[t] # pipe[t]
      BY <1>h, <1>4
    <3> QED
      BY <1>r, <3>1
  <2>2. i \in n(t) + 1 .. Len(r(t))
    <3>1. i \in 1 .. Len(r(t)) /\ Len(r(t)) \in Nat
      BY <1>h, <1>l, <2>1
    <3> QED
      BY <1>h, <1>4, <3>1
  <2>3. i - n(t) \in 1 .. Len(frames) /\ c \in frames[i - n(t)]
    BY <1>h, <2>1, <2>2
  <2>4. frames = <<answered>>
    BY <2>3
  <2>5. i - n(t) = 1
    BY <1>h, <1>l, <2>3, <2>4
  <2>6. c \in answered
    BY <1>l, <2>3, <2>4, <2>5
  <2>7. i = n(t) + 1
    BY <1>h, <2>5
  <2> QED
    BY <2>1, <2>4, <2>6, <2>7
<1>5. ASSUME NEW t \in Sessions, Listening(t), frames = <<answered>>
      PROVE  n(t) + 1 \in 1 .. Len(pipe'[t]) /\ pipe'[t][n(t) + 1] = answered
  <2>1. pipe'[t] = r(t)
    BY <1>r, <1>5
  <2> DEFINE m == n(t) + 1
  <2>2. m \in n(t) + 1 .. Len(r(t)) /\ m - n(t) = 1 /\ m \in 1 .. Len(r(t))
    BY <1>h, <1>l, <1>5
  <2> HIDE DEF m
  <2>3. r(t)[m] = frames[1]
    BY <1>h, <2>2
  <2> QED
    BY <1>l, <1>5, <2>1, <2>2, <2>3 DEF m
<1>6. \A c \in Calls : Made(c) => call[c].session \in Sessions
  BY DEF Inv, TypeOK, Made, CallRecords
<1>7. \A c \in Calls : Made(c)' <=> Made(c)
  BY <1>2 DEF Made
<1>8. ASSUME NEW t \in Sessions, NEW c
      PROVE  InPipe(t, c)' <=>
               InPipe(t, c) \/ (Listening(t) /\ frames = <<answered>> /\ c \in answered)
  <2>1. ASSUME InPipe(t, c)'
        PROVE  InPipe(t, c) \/ (Listening(t) /\ frames = <<answered>> /\ c \in answered)
    <3>1. PICK i \in 1 .. Len(pipe'[t]) : c \in pipe'[t][i]
      BY <2>1 DEF InPipe
    <3>2. CASE i > Len(pipe[t])
      BY <1>4, <3>1, <3>2
    <3>3. CASE ~(i > Len(pipe[t]))
      BY <1>3, <3>1, <3>3 DEF InPipe
    <3> QED
      BY <3>2, <3>3
  <2>2. InPipe(t, c) => InPipe(t, c)'
    BY <1>3 DEF InPipe
  <2>3. Listening(t) /\ frames = <<answered>> /\ c \in answered => InPipe(t, c)'
    BY <1>5 DEF InPipe
  <2> QED
    BY <2>1, <2>2, <2>3
<1>9. Underway' = Underway \cup kept
  <2>1. \A c \in Calls : c \in Underway' <=> c \in Underway \/ c \in kept
    BY <1>0, <1>2, <1>6, <1>7, <1>8 DEF Underway
  <2>2. Underway' \subseteq Calls /\ Underway \cup kept \subseteq Calls
    BY <1>0 DEF Underway
  <2> HIDE DEF kept
  <2> QED
    BY <2>1, <2>2
<1>10. ASSUME NEW t \in Sessions, NEW c \in Calls, NEW d \in Calls, Made(c), Made(d),
              call[c].session = t, call[d].session = t
       PROVE  Earlier(t, c, d)' <=>
                \/ c \in Underway /\ d \in Underway /\ Earlier(t, c, d)
                \/ c \in Underway /\ d \in kept
  <2>1. ASSUME Earlier(t, c, d)'
        PROVE  \/ c \in Underway /\ d \in Underway /\ Earlier(t, c, d)
               \/ c \in Underway /\ d \in kept
    <3>1. PICK j \in 1 .. Len(pipe'[t]) : \E i \in 1 .. j - 1 : c \in pipe'[t][i] /\ d \in pipe'[t][j]
      BY <2>1 DEF Earlier
    <3>2. PICK i \in 1 .. j - 1 : c \in pipe'[t][i] /\ d \in pipe'[t][j]
      BY <3>1
    <3>3. i \in 1 .. Len(pipe'[t]) /\ i < j /\ j <= Len(pipe'[t])
      BY <1>3
    <3>4. i \in 1 .. n(t)
      <4> SUFFICES ASSUME i > n(t) PROVE FALSE
        BY <1>3, <3>3
      <4>1. i = n(t) + 1
        BY <1>4, <3>2, <3>3
      <4>2. j > n(t)
        BY <1>3, <3>3
      <4>3. j = n(t) + 1
        BY <1>4, <3>2, <4>2
      <4> QED
        BY <1>3, <3>3, <4>1, <4>3
    <3>5. c \in Underway
      <4>1. c \in pipe[t][i]
        BY <1>3, <3>2, <3>4
      <4> QED
        BY <1>10, <3>4, <4>1 DEF Underway, InPipe
    <3>6. CASE j > n(t)
      <4>1. d \in kept
        BY <1>4, <1>10, <3>2, <3>6
      <4> QED
        BY <3>5, <4>1
    <3>7. CASE ~(j > n(t))
      <4>1. j \in 1 .. n(t)
        BY <1>3, <3>7
      <4>2. c \in pipe[t][i] /\ d \in pipe[t][j]
        BY <1>3, <3>2, <3>4, <4>1
      <4>3. d \in Underway
        BY <1>10, <4>1, <4>2 DEF Underway, InPipe
      <4>4. Earlier(t, c, d)
        BY <4>1, <4>2 DEF Earlier
      <4> QED
        BY <3>5, <4>3, <4>4
    <3> QED
      BY <3>6, <3>7
  <2>2. ASSUME Earlier(t, c, d) PROVE Earlier(t, c, d)'
    <3>1. PICK j \in 1 .. n(t) : \E i \in 1 .. j - 1 : c \in pipe[t][i] /\ d \in pipe[t][j]
      BY <2>2 DEF Earlier
    <3>2. PICK i \in 1 .. j - 1 : c \in pipe[t][i] /\ d \in pipe[t][j]
      BY <3>1
    <3>3. j \in 1 .. Len(pipe'[t]) /\ i \in 1 .. n(t)
      BY <1>3
    <3>4. c \in pipe'[t][i] /\ d \in pipe'[t][j]
      BY <1>3, <3>2, <3>3
    <3> QED
      BY <3>3, <3>4 DEF Earlier
  <2>3. ASSUME c \in Underway, d \in kept PROVE Earlier(t, c, d)'
    <3>1. Listening(t) /\ frames = <<answered>> /\ d \in answered
      BY <1>10, <2>3
    <3>2. PICK i \in 1 .. n(t) : c \in pipe[t][i]
      BY <1>10, <2>3 DEF Underway, InPipe
    <3>3. n(t) + 1 \in 1 .. Len(pipe'[t]) /\ d \in pipe'[t][n(t) + 1]
      BY <1>5, <3>1
    <3>4. i \in 1 .. n(t) + 1 - 1 /\ c \in pipe'[t][i]
      BY <1>3, <3>2
    <3> QED
      BY <3>3, <3>4 DEF Earlier
  <2> HIDE DEF kept
  <2> QED
    BY <2>1, <2>2, <2>3
<1>11. \A c \in Underway' : c \in Calls /\ Made(c) /\ Callers[c] = call[c].session
  BY <1>7 DEF Underway, Callers
<1>12. Ordered' = Ordered \cup {p \in Underway \X kept : Callers[p[1]] = Callers[p[2]]}
  <2> HIDE DEF kept
  <2>3. \A c \in Underway', d \in Underway' :
          <<c, d>> \in {p \in Underway \X kept : Callers[p[1]] = Callers[p[2]]} <=>
            c \in Underway /\ d \in kept /\ call[c].session = call[d].session
    BY <1>11
  <2>4. /\ Ordered' \subseteq Underway' \X Underway'
        /\ Ordered \subseteq Underway' \X Underway'
        /\ {p \in Underway \X kept : Callers[p[1]] = Callers[p[2]]} \subseteq Underway' \X Underway'
    BY <1>9 DEF Ordered
  <2>5. \A c \in Underway', d \in Underway' :
          <<c, d>> \in Ordered' <=>
            <<c, d>> \in Ordered \/ <<c, d>> \in {p \in Underway \X kept : Callers[p[1]] = Callers[p[2]]}
    <3> SUFFICES ASSUME NEW c \in Underway', NEW d \in Underway'
                 PROVE  <<c, d>> \in Ordered' <=>
                          \/ <<c, d>> \in Ordered
                          \/ <<c, d>> \in {p \in Underway \X kept : Callers[p[1]] = Callers[p[2]]}
      OBVIOUS
    <3>0. c \in Calls /\ d \in Calls /\ Made(c) /\ Made(d)
      BY <1>11
    <3>1. PICK t \in Sessions : t = call[c].session
      BY <1>6, <3>0
    <3>2. CASE call[d].session = t
      <4>1. <<c, d>> \in Ordered' <=> Earlier(t, c, d)'
        BY <1>2, <3>1, <3>2 DEF Ordered, Earlier
      <4>2. <<c, d>> \in Ordered <=> c \in Underway /\ d \in Underway /\ Earlier(t, c, d)
        BY <3>1, <3>2 DEF Ordered
      <4>3. <<c, d>> \in {p \in Underway \X kept : Callers[p[1]] = Callers[p[2]]} <=>
              c \in Underway /\ d \in kept
        BY <2>3, <3>1, <3>2
      <4>4. Earlier(t, c, d)' <=>
              \/ c \in Underway /\ d \in Underway /\ Earlier(t, c, d)
              \/ c \in Underway /\ d \in kept
        BY <1>10, <3>0, <3>1, <3>2
      <4> QED
        BY <4>1, <4>2, <4>3, <4>4
    <3>3. CASE call[d].session # t
      <4>1. <<c, d>> \notin Ordered' /\ <<c, d>> \notin Ordered
        BY <1>2, <3>1, <3>3 DEF Ordered
      <4> QED
        BY <2>3, <3>1, <3>3, <4>1
    <3> QED
      BY <3>2, <3>3
  <2> QED
    BY <2>4, <2>5
<1>13. Callers' = Callers /\ SentOn' = SentOn
  BY <1>2, <1>7 DEF Callers, SentOn
<1>14. kept \in SUBSET answered
  OBVIOUS
<1> HIDE DEF kept
<1>15. Contract!Answer(answered, kept)
  BY <1>9, <1>12, <1>13 DEF Contract!Answer
<1> QED
  BY <1>14, <1>15 DEF Simulated, Contract!Next

\* The session's own answers in its first n frames.
Taken(s, n) == {c \in Underway : call[c].session = s /\ \E i \in 1 .. n : c \in pipe[s][i]}

\* The oldest frames leave a pipe.
LEMMA FramesTaken ==
  ASSUME Inv, NEW s \in Sessions, NEW n \in 0 .. Len(pipe[s]),
         pipe' = [pipe EXCEPT ![s] = SubSeq(@, n + 1, Len(@))], call' = call
  PROVE  /\ \A c \in Taken(s, n), d \in Underway \ Taken(s, n) : <<d, c>> \notin Ordered
         /\ Underway' = Underway \ Taken(s, n)
         /\ Ordered' = Ordered \cap (Underway' \X Underway')
<1>0. pipe[s] \in Seq(SUBSET Calls) /\ Len(pipe[s]) \in Nat /\ n \in Nat /\ n <= Len(pipe[s])
  <2>1. pipe[s] \in Seq(SUBSET Calls)
    BY DEF Inv, TypeOK
  <2> QED
    BY <2>1
<1>1. /\ \A t \in Sessions : t # s => pipe'[t] = pipe[t]
      /\ pipe'[s] = SubSeq(pipe[s], n + 1, Len(pipe[s]))
  BY DEF Inv, TypeOK
<1>2. /\ Len(pipe'[s]) = Len(pipe[s]) - n
      /\ \A i \in 1 .. Len(pipe'[s]) : pipe'[s][i] = pipe[s][i + n]
  BY <1>0, <1>1, TakeFrames
<1>3. \A c \in Calls : Made(c)' <=> Made(c)
  BY DEF Made
<1>4. \A c \in Calls : Made(c) => call[c].session \in Sessions
  BY DEF Inv, TypeOK, Made, CallRecords
\* An answer is in one frame of a pipe.
<1>5. \A c : \A i, j \in 1 .. Len(pipe[s]) : c \in pipe[s][i] /\ c \in pipe[s][j] => i = j
  BY DEF Inv, OnePlace
<1>6. ASSUME NEW c \in Calls, Made(c), call[c].session = s
      PROVE  InPipe(s, c)' <=> InPipe(s, c) /\ ~(\E i \in 1 .. n : c \in pipe[s][i])
  <2>1. ASSUME InPipe(s, c)' PROVE InPipe(s, c) /\ ~(\E i \in 1 .. n : c \in pipe[s][i])
    <3>1. PICK i \in 1 .. Len(pipe'[s]) : c \in pipe'[s][i]
      BY <2>1 DEF InPipe
    <3>2. i + n \in 1 .. Len(pipe[s]) /\ c \in pipe[s][i + n]
      BY <1>0, <1>2, <3>1
    <3>3. \A k \in 1 .. n : k \in 1 .. Len(pipe[s]) /\ k # i + n
      BY <1>0
    <3> QED
      BY <1>5, <3>2, <3>3 DEF InPipe
  <2>2. ASSUME InPipe(s, c), ~(\E i \in 1 .. n : c \in pipe[s][i]) PROVE InPipe(s, c)'
    <3>1. PICK i \in 1 .. Len(pipe[s]) : c \in pipe[s][i]
      BY <2>2 DEF InPipe
    <3>2. ~(i \in 1 .. n)
      BY <2>2, <3>1
    <3> DEFINE k == i - n
    <3>3. k \in 1 .. Len(pipe'[s]) /\ k + n = i
      BY <1>0, <1>2, <3>2
    <3> HIDE DEF k
    <3> QED
      BY <1>2, <3>1, <3>3 DEF InPipe
  <2> QED
    BY <2>1, <2>2
<1>7. ASSUME NEW c \in Calls PROVE c \in Underway' <=> c \in Underway /\ c \notin Taken(s, n)
  <2>1. CASE Made(c) /\ call[c].session = s
    BY <1>3, <1>6, <2>1 DEF Underway, Taken
  <2>2. CASE Made(c) /\ call[c].session # s
    <3>1. pipe'[call[c].session] = pipe[call[c].session]
      BY <1>1, <1>4, <2>2
    <3> QED
      BY <1>3, <2>2, <3>1 DEF Underway, Taken, InPipe
  <2>3. CASE ~Made(c)
    BY <1>3, <2>3 DEF Underway
  <2> QED
    BY <2>1, <2>2, <2>3
<1>8. Underway' = Underway \ Taken(s, n)
  <2>1. Underway' \subseteq Calls /\ Underway \subseteq Calls
    BY DEF Underway
  <2> QED
    BY <1>7, <2>1
<1>9. ASSUME NEW c \in Taken(s, n), NEW d \in Underway \ Taken(s, n), <<d, c>> \in Ordered
      PROVE  FALSE
  <2>1. call[d].session = s /\ call[c].session = s /\ Earlier(s, d, c)
    BY <1>9 DEF Ordered, Taken
  <2>2. PICK j \in 1 .. Len(pipe[s]) : \E i \in 1 .. j - 1 : d \in pipe[s][i] /\ c \in pipe[s][j]
    BY <2>1 DEF Earlier
  <2>3. PICK i \in 1 .. j - 1 : d \in pipe[s][i] /\ c \in pipe[s][j]
    BY <2>2
  <2>4. PICK k \in 1 .. n : c \in pipe[s][k]
    BY DEF Taken
  <2>5. k \in 1 .. Len(pipe[s])
    BY <1>0
  <2>6. k = j
    BY <1>5, <2>3, <2>4, <2>5
  <2>7. i \in 1 .. n
    BY <1>0, <2>6
  <2> QED
    BY <2>1, <2>3, <2>7 DEF Taken
<1>10. ASSUME NEW c \in Underway', NEW d \in Underway', call[c].session = call[d].session
       PROVE  Earlier(call[c].session, c, d)' <=> Earlier(call[c].session, c, d)
  <2>0. c \in Calls /\ d \in Calls /\ Made(c) /\ Made(d) /\ call[c].session \in Sessions
    BY <1>3, <1>4 DEF Underway
  <2>1. CASE call[c].session # s
    <3>1. pipe'[call[c].session] = pipe[call[c].session]
      BY <1>1, <2>0, <2>1
    <3> QED
      BY <3>1 DEF Earlier
  <2>2. CASE call[c].session = s
    <3>1. ASSUME Earlier(s, c, d)' PROVE Earlier(s, c, d)
      <4>1. PICK j \in 1 .. Len(pipe'[s]) : \E i \in 1 .. j - 1 : c \in pipe'[s][i] /\ d \in pipe'[s][j]
        BY <3>1 DEF Earlier
      <4>2. PICK i \in 1 .. j - 1 : c \in pipe'[s][i] /\ d \in pipe'[s][j]
        BY <4>1
      <4> DEFINE k == i + n
                 m == j + n
      <4>3. m \in 1 .. Len(pipe[s]) /\ k \in 1 .. m - 1
        BY <1>0, <1>2
      <4>4. c \in pipe[s][k] /\ d \in pipe[s][m]
        BY <1>0, <1>2, <4>2
      <4> HIDE DEF k, m
      <4> QED
        BY <4>3, <4>4 DEF Earlier
    <3>2. ASSUME Earlier(s, c, d) PROVE Earlier(s, c, d)'
      <4>1. PICK j \in 1 .. Len(pipe[s]) : \E i \in 1 .. j - 1 : c \in pipe[s][i] /\ d \in pipe[s][j]
        BY <3>2 DEF Earlier
      <4>2. PICK i \in 1 .. j - 1 : c \in pipe[s][i] /\ d \in pipe[s][j]
        BY <4>1
      <4>3. ~(i \in 1 .. n) /\ i < j
        BY <1>7, <2>0, <2>2, <4>2 DEF Taken
      <4> DEFINE k == i - n
                 m == j - n
      <4>4. m \in 1 .. Len(pipe'[s]) /\ k \in 1 .. m - 1 /\ k \in 1 .. Len(pipe'[s])
            /\ k + n = i /\ m + n = j
        BY <1>0, <1>2, <4>3
      <4> HIDE DEF k, m
      <4>5. c \in pipe'[s][k] /\ d \in pipe'[s][m]
        BY <1>2, <4>2, <4>4
      <4> QED
        BY <4>4, <4>5 DEF Earlier
    <3> QED
      BY <2>2, <3>1, <3>2
  <2> QED
    BY <2>1, <2>2
<1>11. Ordered' = Ordered \cap (Underway' \X Underway')
  <2>1. \A c \in Underway', d \in Underway' : <<c, d>> \in Ordered' <=> <<c, d>> \in Ordered
    BY <1>8, <1>10 DEF Ordered
  <2>2. Ordered' \subseteq Underway' \X Underway'
    BY DEF Ordered
  <2> QED
    BY <2>1, <2>2
<1> QED
  BY <1>8, <1>9, <1>11

\* A chunk takes the oldest answers; those that go out are the session's own.
LEMMA ReceiveSimulates ==
  ASSUME Inv, Inv', NEW s \in Sessions, NEW n \in 0 .. Len(pipe[s]), NEW tear \in BOOLEAN,
         Receive(s, n, tear)
  PROVE  Simulated
<1>1. PICK out \in Deliveries(s, IF torn[s] THEN {} ELSE Answers(s, n)) : Send(s, out)
  BY DEF Receive
<1>2. /\ call' = call /\ asked' = asked
      /\ pipe' = [pipe EXCEPT ![s] = SubSeq(@, n + 1, Len(@))]
  BY DEF Receive
<1>3. \A c \in out : Restored(s, c) # None /\ \E i \in 1 .. n : c \in pipe[s][i]
  BY <1>1 DEF Deliveries, Answers
<1>4. ASSUME NEW c \in out PROVE c \in Taken(s, n)
  <2>1. pipe[s] \in Seq(SUBSET Calls)
    BY DEF Inv, TypeOK
  <2>2. PICK i \in 1 .. n : c \in pipe[s][i]
    BY <1>3
  <2>3. i \in 1 .. Len(pipe[s])
    BY <2>1
  <2>4. c \in Calls /\ InPipe(s, c)
    BY <2>1, <2>2, <2>3 DEF InPipe
  <2>5. Made(c)
    BY <2>4 DEF Inv, OnlyMade
  <2>6. call[c].session = s
    <3>1. /\ call[c].proxyId \in ProxyIds
          /\ call[c].proxyId = <<call[c].session, Text[call[c].id]>>
      BY <2>4, <2>5 DEF Inv, TypeOK, Made, CallRecords, ProxyIdsMatch
    <3>2. call[c].proxyId[1] = s
      BY <1>3, <3>1 DEF Inv, MapsMatch, Restored
    <3> QED
      BY <3>1, <3>2
  <2> QED
    BY <2>2, <2>4, <2>5, <2>6 DEF Taken, Underway
<1>5. SentOn' = [c \in Calls |-> IF c \in out THEN Append(SentOn[c], s) ELSE SentOn[c]]
  <2>1. ASSUME NEW c \in Calls
        PROVE  SentOn'[c] = IF c \in out THEN Append(SentOn[c], s) ELSE SentOn[c]
    <3>0. got[c] \in Seq(Sessions \X AnyId)
      BY DEF Inv, TypeOK
    <3>1. CASE c \notin out
      BY <1>1, <3>1 DEF Send, SentOn
    <3>2. CASE c \in out
      <4> DEFINE x == <<s, Restored(s, c)>>
                 r == Append(got[c], x)
                 q == [i \in 1 .. Len(got[c]) |-> got[c][i][1]]
      <4>1. got'[c] = r
        BY <1>1, <3>2 DEF Send
      <4>2. /\ Len(r) = Len(got[c]) + 1 /\ Len(got[c]) \in Nat
            /\ \A i \in 1 .. Len(got[c]) : r[i] = got[c][i]
            /\ r[Len(got[c]) + 1] = x
        <5> HIDE DEF x
        <5> QED
          BY <3>0
      <4>3. x[1] = s
        OBVIOUS
      <4> HIDE DEF r, x
      <4>4. SentOn'[c] = [i \in 1 .. Len(r) |-> r[i][1]]
        BY <4>1 DEF SentOn
      <4>5. SentOn[c] = q
        BY DEF SentOn
      <4>6. Append(q, s) = [i \in 1 .. Len(got[c]) + 1 |-> IF i = Len(got[c]) + 1 THEN s ELSE q[i]]
        BY <4>2
      <4>q. \A i \in 1 .. Len(got[c]) : q[i] = got[c][i][1]
        OBVIOUS
      <4>7. ASSUME NEW i \in 1 .. Len(got[c]) + 1
            PROVE  r[i][1] = IF i = Len(got[c]) + 1 THEN s ELSE q[i]
        <5> HIDE DEF q
        <5>1. i # Len(got[c]) + 1 => i \in 1 .. Len(got[c])
          BY <4>2
        <5>2. i # Len(got[c]) + 1 => r[i][1] = q[i]
          BY <4>2, <4>q, <5>1
        <5>3. CASE i = Len(got[c]) + 1
          <6>1. r[i] = x
            BY <4>2, <5>3
          <6>2. r[i][1] = s
            BY <4>3, <6>1
          <6> QED
            BY <5>3, <6>2
        <5>4. CASE i # Len(got[c]) + 1
          BY <5>2, <5>4
        <5> QED
          BY <5>3, <5>4
      <4> HIDE DEF q
      <4>8. Append(q, s) = [i \in 1 .. Len(r) |-> r[i][1]]
        BY <4>2, <4>6, <4>7
      <4> QED
        BY <3>2, <4>4, <4>5, <4>8
    <3> QED
      BY <3>1, <3>2
  <2> QED
    BY <2>1 DEF SentOn
<1>6. /\ \A c \in Taken(s, n), d \in Underway \ Taken(s, n) : <<d, c>> \notin Ordered
      /\ Underway' = Underway \ Taken(s, n)
      /\ Ordered' = Ordered \cap (Underway' \X Underway')
  BY <1>2, FramesTaken
<1>7. Callers' = Callers
  BY <1>2 DEF Callers, Made
<1>8. Contract!Take(s, Taken(s, n), out)
  BY <1>2, <1>5, <1>6, <1>7 DEF Contract!Take
<1>9. Taken(s, n) \in SUBSET {c \in Underway : Callers[c] = s} /\ out \in SUBSET Taken(s, n)
  BY <1>4 DEF Taken, Underway, Callers
<1> QED
  BY <1>8, <1>9 DEF Simulated, Contract!Next

\* What is on its way to an SSE session that closes is lost.
LEMMA CloseSimulates ==
  ASSUME Inv, NEW s \in Sessions, CloseSse(s)
  PROVE  Simulated
<1> DEFINE n == Len(pipe[s])
<1>1. n \in 0 .. Len(pipe[s]) /\ SubSeq(pipe[s], n + 1, n) = <<>>
  <2>1. pipe[s] \in Seq(SUBSET Calls)
    BY DEF Inv, TypeOK
  <2> QED
    BY <2>1
<1>2. /\ call' = call /\ asked' = asked /\ got' = got
      /\ pipe' = [pipe EXCEPT ![s] = SubSeq(@, n + 1, Len(@))]
  BY <1>1 DEF CloseSse
<1>3. /\ \A c \in Taken(s, n), d \in Underway \ Taken(s, n) : <<d, c>> \notin Ordered
      /\ Underway' = Underway \ Taken(s, n)
      /\ Ordered' = Ordered \cap (Underway' \X Underway')
  BY <1>1, <1>2, FramesTaken
<1>4. Callers' = Callers /\ SentOn' = SentOn
  BY <1>2 DEF Callers, SentOn, Made
<1>5. SentOn' = [c \in Calls |-> IF c \in {} THEN Append(SentOn[c], s) ELSE SentOn[c]]
  BY <1>4 DEF SentOn
<1>6. Contract!Take(s, Taken(s, n), {})
  BY <1>2, <1>3, <1>4, <1>5 DEF Contract!Take
<1>7. Taken(s, n) \in SUBSET {c \in Underway : Callers[c] = s} /\ {} \in SUBSET Taken(s, n)
  BY DEF Taken, Underway, Callers
<1> QED
  BY <1>6, <1>7 DEF Simulated, Contract!Next

LEMMA StepSimulates ==
  ASSUME Inv, Inv', [Next]_vars
  PROVE  Simulated
<1>1. ASSUME NEW s \in Sessions, Start(s) \/ CloseStreamable(s) \/ HangUp(s) PROVE Simulated
  BY <1>1, StutterSimulates DEF Start, CloseStreamable, HangUp
<1>2. ASSUME NEW s \in Sessions, CloseSse(s) PROVE Simulated
  BY <1>2, CloseSimulates
<1>3. ASSUME NEW s \in Sessions, NEW c \in Calls, Forward(s, c) PROVE Simulated
  BY <1>3, ForwardSimulates
<1>4. ASSUME NEW s \in Sessions, Chunk(s) PROVE Simulated
  <2>1. PICK n \in 0 .. Len(pipe[s]), tear \in BOOLEAN : Receive(s, n, tear)
    BY <1>4 DEF Chunk
  <2> QED
    BY <2>1, ReceiveSimulates
<1>5. CASE ServerWrites
  <2>1. PICK c \in asked \cup {None}, e \in asked \cup {None} :
          Broadcast(<<{c, e} \ {None}>>) /\ asked' = asked \ ({c, e} \ {None})
    BY <1>5 DEF ServerWrites
  <2> DEFINE answered == {c, e} \ {None}
  <2>2. answered \in SUBSET asked
    OBVIOUS
  <2> HIDE DEF answered
  <2>3. <<answered>> \in Seq(SUBSET Calls)
    BY <2>2 DEF Inv, TypeOK
  <2> QED
    BY <2>1, <2>2, <2>3, WritesSimulate DEF answered
<1>6. CASE ServerWritesLong
  <2>1. PICK c \in asked : Broadcast(<<{}, {}>>) /\ asked' = asked \ {c}
    BY <1>6 DEF ServerWritesLong
  <2> DEFINE frames == <<{}, {}>>
  <2>2. frames \in Seq(SUBSET Calls) /\ \A i \in 1 .. Len(frames) : frames[i] = {}
    OBVIOUS
  <2>3. {c} \in SUBSET asked
    OBVIOUS
  <2> HIDE DEF frames
  <2> QED
    BY <2>1, <2>2, <2>3, WritesSimulate DEF frames
<1>7. CASE UNCHANGED vars
  BY <1>7, StutterSimulates DEF vars
<1> QED
  BY <1>1, <1>2, <1>3, <1>4, <1>5, <1>6, <1>7 DEF Next

LEMMA InitSimulates == Init => Contract!Init
<1> SUFFICES ASSUME Init PROVE Contract!Init
  OBVIOUS
<1>1. \A c \in Calls : ~Made(c)
  BY DEF Init, Made
<1>2. Underway = {}
  BY <1>1 DEF Underway
<1>3. Ordered = {}
  BY <1>2 DEF Ordered
<1>4. Callers = [c \in Calls |-> None]
  BY <1>1 DEF Callers
<1>5. SentOn = [c \in Calls |-> <<>>]
  BY DEF Init, SentOn
<1> QED
  BY <1>2, <1>3, <1>4, <1>5 DEF Contract!Init, Init

-----------------------------------------------------------------------------
(* Theorems *)

\* The maps, frames, responses and answers of the proxies keep their types,
\* for any number of sessions, calls and frames.
THEOREM TypeCorrect == Spec => []TypeOK
<1>1. Inv => TypeOK
  BY DEF Inv
<1> QED
  BY <1>1, Invariance, PTL

\* However many sessions share the server's stdin and hear its answers, an
\* answer goes out only on the session that asked: the proxy id names it.
THEOREM OwnAnswersOnly == Spec => []AnswersReachTheirCaller
<1>1. Inv => AnswersReachTheirCaller
  BY DEF Inv
<1> QED
  BY <1>1, Invariance, PTL

\* No frame, chunk or closing order makes a proxy answer a call twice.
THEOREM NoSecondAnswer == Spec => []AnsweredAtMostOnce
<1>1. Inv => AnsweredAtMostOnce
  BY DEF Inv
<1> QED
  BY <1>1, Invariance, PTL

\* The id map never hands back an id that prints unlike the call's own.
THEOREM SameText == Spec => []IdsKeepTheirText
<1>1. Inv => IdsKeepTheirText
  BY DEF Inv
<1> QED
  BY <1>1, Invariance, PTL

\* While a session is heard, the answer to one of its calls disappears only where a
\* cut takes it, or, on the streamable transport, when nobody waits for its id or the
\* id is confused with another: the maps, the broadcast and the order lose nothing.
THEOREM OnlyCutsLose == Spec => LostOnlyByCuts
<1>1. Init => MapsHold
  BY DEF Init, MapsHold, Made
<1>2. Inv /\ Inv' /\ MapsHold /\ [Next]_vars => MapsHold'
  BY MapsHoldStep
<1>3. Inv /\ MapsHold /\ [Next]_vars =>
        [\A c \in Calls : \A s \in Sessions :
           (Made(c) /\ call[c].session = s /\ Listening(s)' /\ Pending(s, c) /\ ~Pending(s, c)') =>
             \/ c \in asked /\ ServerWritesLong
             \/ c \notin asked /\ torn[s]
             \/ s \in StreamSessions /\ (call[c].id \notin responses[s] \/ SharesProxyId(c))]_vars
  BY LostStep
<1> QED
  BY <1>1, <1>2, <1>3, Invariance, PTL DEF Spec, LostOnlyByCuts

\* The proxies implement the contract: to every session the one server is as good as
\* one of its own, whose answers may be lost on the way, but do not overtake each
\* other, come twice or go astray.
THEOREM KeepsAnswerContract == Spec => ImplementsAnswerContract
<1>1. Inv /\ Inv' /\ [Next]_vars => [Contract!Next]_(Contract!vars)
  BY StepSimulates DEF Simulated
<1> QED
  BY <1>1, InitSimulates, Invariance, PTL DEF Spec, ImplementsAnswerContract, Contract!Spec

=============================================================================
