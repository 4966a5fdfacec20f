-------------------------- MODULE ActorLearnerProofs --------------------------
(***************************************************************************)
(* What holds of the streams between actor and learner for every bound:    *)
(* the learner stores the steps of each run of the actor from the first    *)
(* one on, in order and once, and the policy of the actor is as new as     *)
(* the parameters that have reached it, whatever is cut, lost or started   *)
(* again in between.                                                       *)
(***************************************************************************)
EXTENDS ActorLearner, SequenceTheorems, FiniteSetTheorems, TLAPS

USE LinkAssumption

(***************************************************************************)
(* The inductive invariant.                                                *)
(***************************************************************************)
Numbered == Nat \X Nat
Chunk == [body : Seq(Numbered), part : Nat \ {0}, of : Nat \ {0}, state : {"begin", "middle", "end"}]

\* The payload that some bytes are, or are a part of.
Body(bytes) == bytes[1].body
Payload(bytes) == SendBytesInChunks(Body(bytes), bytes[1].of)

RunTypes ==
    /\ actorPc \in {"ready", "act", "push", "join", "left"}
    /\ learnerPc \in {"transitions", "train", "left"}
    /\ linkFaults \in 0 .. MaxLinkFaults /\ run \in 1 .. linkFaults + 1
    /\ interactionStep \in 0 .. OnlineSteps

StreamTypes ==
    /\ call \in [Streams -> {"none", "called", "up", "ended"}]
    /\ chunks \in [Streams -> Seq(Chunk)] /\ received \in [Streams -> Seq(Chunk)]
    /\ inbox \in [Streams -> Seq(Seq(Chunk))]

\* What is put together and what is still to come make one payload, and what is queued
\* is one.
PayloadsWhole ==
    \A s \in Streams :
        /\ chunks[s] = <<>> => received[s] = <<>>
        /\ chunks[s] # <<>> => received[s] \o chunks[s] = Payload(chunks[s])
        /\ \A i \in 1 .. Len(inbox[s]) : inbox[s][i] # <<>> /\ inbox[s][i] = Payload(inbox[s][i])

\* Consecutive steps of one run of the actor.
Episodes ==
    {e \in Seq(Transitions) : /\ e # <<>>
                              /\ \A i \in 1 .. Len(e) - 1 : e[i + 1] = <<e[i][1], e[i][2] + 1>>}

\* b is stored after a: the next step, or the first of a later run.
Follows(a, b) == b = <<a[1], a[2] + 1>> \/ (b[1] > a[1] /\ b[2] = 1)

\* Each of the episodes begins where the one before it, the first where p ends.
Chain(p, s) == \A i \in 1 .. Len(s) : Follows(IF i = 1 THEN p ELSE Last(s[i - 1]), s[i][1])
ChainEnd(p, s) == IF s = <<>> THEN p ELSE Last(Last(s))

\* The way from the actor to the replay buffer: episodes pushed, on the way, arrived.
Bodies(queue) == [i \in 1 .. Len(queue) |-> Body(queue[i])]
Arrived == Bodies(inbox["transitions"])
Sent == IF chunks["transitions"] = <<>> THEN <<>> ELSE <<Body(chunks["transitions"])>>

LastStored == IF stored = <<>> THEN <<0, 0>> ELSE Last(stored)
LastArrived == ChainEnd(LastStored, Arrived)
LastSent == ChainEnd(LastArrived, Sent)
LastPushed == ChainEnd(LastSent, outbox)

\* The first step of the episode that the actor collects.
NextStep == <<run, interactionStep - Len(episode) + 1>>

UpToRun(s) == \A i \in 1 .. Len(s) : Last(s[i])[1] <= run

ArrivedInOrder ==
    /\ stored \in Seq(Transitions) /\ LastStored[1] <= run
    /\ Arrived \in Seq(Episodes) /\ Chain(LastStored, Arrived) /\ UpToRun(Arrived)

SentInOrder == Sent \in Seq(Episodes) /\ Chain(LastArrived, Sent) /\ UpToRun(Sent)

\* Once the stream has ended, what is in the outbox goes nowhere.
PushedInOrder ==
    /\ outbox \in Seq(Episodes) /\ UpToRun(outbox)
    /\ call["transitions"] # "ended" => Chain(LastSent, outbox) /\ Follows(LastPushed, NextStep)

EpisodeInOrder ==
    /\ episode \in Seq(Transitions) /\ Len(episode) <= interactionStep
    /\ \A i \in 1 .. Len(episode) : episode[i] = <<run, interactionStep - Len(episode) + i>>
    /\ actorPc = "push" => episode # <<>>
    /\ actorPc = "ready" => call["transitions"] = "none"

OrderInv == ArrivedInOrder /\ SentInOrder /\ PushedInOrder /\ EpisodeInOrder /\ StoredInOrder

\* The way of the parameters: they are the newer the less far they have come.
Parameters == {b \in Seq(Numbered) : b # <<>>}
Version(bytes) == Head(Body(bytes))[2]

VersionsGrow ==
    /\ loaded \in Nat /\ newest \in Nat /\ version \in 1 .. MaxVersions
    /\ loaded <= newest /\ newest <= version
    /\ parametersQueue \in Seq(1 .. MaxVersions)
    /\ \A i \in 1 .. Len(inbox["parameters"]) : Body(inbox["parameters"][i]) \in Parameters
    /\ IF inbox["parameters"] = <<>> THEN loaded = newest
       ELSE Version(Last(inbox["parameters"])) = newest
    /\ chunks["parameters"] # <<>> =>
        /\ Body(chunks["parameters"]) \in Parameters
        /\ newest <= Version(chunks["parameters"]) /\ Version(chunks["parameters"]) <= version
    /\ \A i \in 1 .. Len(parametersQueue) :
        /\ newest <= parametersQueue[i] /\ parametersQueue[i] <= version
        /\ chunks["parameters"] # <<>> => Version(chunks["parameters"]) <= parametersQueue[i]

LinkInv == RunTypes /\ StreamTypes /\ PayloadsWhole /\ OrderInv /\ VersionsGrow

(***************************************************************************)
(* Payloads in chunks.                                                     *)
(***************************************************************************)

\* A payload has as many chunks as it is cut into, numbered, and the last is END.
LEMMA CutIntoChunks ==
    ASSUME NEW body \in Seq(Numbered), NEW n \in Nat \ {0}
    PROVE  /\ SendBytesInChunks(body, n) \in Seq(Chunk)
           /\ Len(SendBytesInChunks(body, n)) = n /\ SendBytesInChunks(body, n) # <<>>
           /\ \A i \in 1 .. n : LET c == SendBytesInChunks(body, n)[i]
                                IN  /\ c.body = body /\ c.part = i /\ c.of = n
                                    /\ c.state = "end" <=> i = n
                                    /\ c.state = "begin" => i = 1
<1> DEFINE s == SendBytesInChunks(body, n)
<1>1. s = [part \in 1 .. n |-> [body |-> body, part |-> part, of |-> n, state |-> TransferState(part, n)]]
    BY DEF SendBytesInChunks
<1>2. \A i \in 1 .. n : [body |-> body, part |-> i, of |-> n, state |-> TransferState(i, n)] \in Chunk
    BY DEF Chunk, TransferState
<1>3. s \in [1 .. n -> Chunk]
    BY <1>1, <1>2
<1>4. s \in Seq(Chunk)
    BY <1>3
<1>5. Len(s) = n /\ s # <<>>
    BY <1>3, <1>4
<1>6. \A i \in 1 .. n : /\ s[i].body = body /\ s[i].part = i /\ s[i].of = n
                        /\ s[i].state = "end" <=> i = n
                        /\ s[i].state = "begin" => i = 1
    BY <1>1 DEF TransferState
<1> QED BY <1>4, <1>5, <1>6

\* A payload is one of its own first chunk, and it is decoded as what was sent.
LEMMA PayloadOfItself ==
    ASSUME NEW body \in Seq(Numbered), NEW n \in Nat \ {0}
    PROVE  LET s == SendBytesInChunks(body, n)
           IN  Body(s) = body /\ Payload(s) = s /\ Decoded(s) = body
<1> DEFINE s == SendBytesInChunks(body, n)
<1>1. s[1].body = body /\ s[1].of = n
    BY CutIntoChunks
<1> QED BY <1>1 DEF Body, Payload, Decoded

\* The bytes of a queue that are a payload are decoded as its body.
LEMMA DecodedBody ==
    ASSUME NEW bytes, bytes = Payload(bytes)
    PROVE  Decoded(bytes) = Body(bytes)
BY DEF Payload, Decoded, Body

\* The first chunk follows the bytes received: what is put together is all of the
\* payload with the chunk marked END, and with no other.
LEMMA ReceivedWhole ==
    ASSUME NEW v \in Seq(Chunk), NEW q \in Seq(Chunk), q # <<>>, v \o q = Payload(q)
    PROVE  /\ Append(IF Head(q).state = "begin" THEN <<>> ELSE v, Head(q)) = Append(v, Head(q))
           /\ Head(q).state = "end" <=> Len(q) = 1
           /\ Head(q).state = "end" =>
                 /\ Tail(q) = <<>> /\ Append(v, Head(q)) # <<>>
                 /\ Append(v, Head(q)) = Payload(q) /\ Body(Append(v, Head(q))) = Body(q)
                 /\ Payload(Append(v, Head(q))) = Append(v, Head(q))
           /\ Head(q).state # "end" =>
                 /\ Tail(q) # <<>> /\ Append(v, Head(q)) \o Tail(q) = Payload(Tail(q))
                 /\ Body(Tail(q)) = Body(q)
<1> DEFINE n == q[1].of
           k == Len(v) + 1
           s == SendBytesInChunks(Body(q), n)
<1>1. /\ Len(q) \in Nat \ {0} /\ Len(v) \in Nat /\ q[1] \in Chunk /\ Head(q) = q[1]
      /\ Tail(q) \in Seq(Chunk) /\ Len(Tail(q)) = Len(q) - 1
      /\ Len(q) > 1 => Tail(q)[1] = q[2]
    OBVIOUS
<1>2. Body(q) \in Seq(Numbered) /\ n \in Nat \ {0}
    BY <1>1 DEF Body, Chunk
<1>3. v \o q = s
    BY DEF Payload
<1> HIDE DEF n
<1>4. /\ Len(s) = n /\ s \in Seq(Chunk)
      /\ \A i \in 1 .. n : /\ s[i].body = Body(q) /\ s[i].part = i /\ s[i].of = n
                           /\ s[i].state = "end" <=> i = n
                           /\ s[i].state = "begin" => i = 1
    BY <1>2, CutIntoChunks
<1> HIDE DEF s
<1>5. Len(v) + Len(q) = n
    BY <1>3, <1>4, ConcatProperties
<1>6. k \in 1 .. n /\ s[k] = q[1]
    <2>1. k \in 1 .. Len(v) + Len(q) /\ ~(k <= Len(v)) /\ k - Len(v) = 1
        BY <1>1
    <2> QED BY <1>3, <1>5, <2>1, ConcatProperties
<1>7. Append(IF Head(q).state = "begin" THEN <<>> ELSE v, Head(q)) = Append(v, Head(q))
    <2>1. Head(q).state = "begin" => Len(v) = 0
        BY <1>1, <1>4, <1>6
    <2>2. Len(v) = 0 => v = <<>>
        OBVIOUS
    <2> QED BY <2>1, <2>2
<1>8. Head(q).state = "end" <=> Len(q) = 1
    <2>1. Head(q).state = "end" <=> k = n
        BY <1>1, <1>4, <1>6
    <2>2. k = n <=> Len(q) = 1
        BY <1>1, <1>5
    <2> QED BY <2>1, <2>2
<1>9. Append(v, Head(q)) \o Tail(q) = s
    <2>1. /\ Append(v, Head(q)) \in Seq(Chunk) /\ Len(Append(v, Head(q))) = Len(v) + 1
        BY <1>1
    <2>2. \A i \in 1 .. Len(v) + Len(q) : (Append(v, Head(q)) \o Tail(q))[i] = (v \o q)[i]
        BY <1>1, <2>1
    <2>3. /\ Append(v, Head(q)) \o Tail(q) \in Seq(Chunk)
          /\ Len(Append(v, Head(q)) \o Tail(q)) = Len(v) + Len(q)
        BY <1>1, <2>1
    <2>4. Append(v, Head(q)) \o Tail(q) = v \o q
        BY <1>3, <1>4, <1>5, <2>2, <2>3, SeqEqual
    <2> QED BY <1>3, <2>4
<1>10. ASSUME Head(q).state = "end"
       PROVE  /\ Tail(q) = <<>> /\ Append(v, Head(q)) # <<>>
              /\ Append(v, Head(q)) = s /\ Body(s) = Body(q) /\ Payload(s) = s
    <2>1. Tail(q) = <<>>
        BY <1>1, <1>8, <1>10
    <2>2. Append(v, Head(q)) \o <<>> = Append(v, Head(q)) /\ Append(v, Head(q)) # <<>>
        <3>1. Append(v, Head(q)) \in Seq(Chunk) /\ Len(Append(v, Head(q))) = Len(v) + 1
            BY <1>1
        <3> QED BY <1>1, <3>1, ConcatEmptySeq
    <2>3. Body(s) = Body(q) /\ Payload(s) = s
        BY <1>2, PayloadOfItself DEF s
    <2> QED BY <1>9, <2>1, <2>2, <2>3
<1>11. ASSUME Head(q).state # "end"
       PROVE  Tail(q) # <<>> /\ Tail(q)[1].body = Body(q) /\ Tail(q)[1].of = n
    <2>1. Len(q) > 1
        BY <1>1, <1>8, <1>11
    <2>2. k + 1 \in 1 .. n /\ s[k + 1] = q[2]
        <3>1. k + 1 \in 1 .. Len(v) + Len(q) /\ ~(k + 1 <= Len(v)) /\ k + 1 - Len(v) = 2
            BY <1>1, <2>1
        <3> QED BY <1>3, <1>5, <3>1, ConcatProperties
    <2>3. s[k + 1].body = Body(q) /\ s[k + 1].of = n
        BY <1>4, <2>2
    <2>4. Tail(q) # <<>>
        <3>1. Len(Tail(q)) = Len(q) - 1 /\ Len(q) - 1 # 0
            BY <2>1, HeadTailProperties
        <3> QED BY <3>1, Len(<<>>) = 0
    <2>5. Tail(q)[1] = s[k + 1]
        BY <1>1, <2>1, <2>2
    <2> QED BY <2>3, <2>4, <2>5
<1>12. Head(q).state # "end" => Append(v, Head(q)) \o Tail(q) = Payload(Tail(q)) /\ Body(Tail(q)) = Body(q)
    BY <1>9, <1>11 DEF Payload, Body, s
<1>13. Payload(q) = s
    BY DEF Payload, s, n
<1> QED BY <1>7, <1>8, <1>10, <1>11, <1>12, <1>13

(***************************************************************************)
(* Chains of episodes.                                                     *)
(***************************************************************************)

\* An episode that follows the end of a chain makes it longer.
LEMMA ChainAppend ==
    ASSUME NEW p, NEW s \in Seq(Episodes), NEW e \in Episodes, Chain(p, s), Follows(ChainEnd(p, s), e[1])
    PROVE  /\ Append(s, e) \in Seq(Episodes) /\ Chain(p, Append(s, e))
           /\ ChainEnd(p, Append(s, e)) = Last(e)
<1>1. /\ Append(s, e) \in Seq(Episodes) /\ Len(Append(s, e)) = Len(s) + 1 /\ Append(s, e) # <<>>
      /\ Append(s, e)[Len(s) + 1] = e /\ \A i \in 1 .. Len(s) : Append(s, e)[i] = s[i]
      /\ Len(s) \in Nat
      /\ Len(s) = 0 <=> s = <<>>
    OBVIOUS
<1>2. ASSUME NEW i \in 1 .. Len(s) + 1
      PROVE  Follows(IF i = 1 THEN p ELSE Last(Append(s, e)[i - 1]), Append(s, e)[i][1])
    <2>1. CASE i <= Len(s)
        <3>1. i \in 1 .. Len(s) /\ (i # 1 => i - 1 \in 1 .. Len(s))
            BY <1>1, <1>2, <2>1
        <3> QED BY <1>1, <3>1 DEF Chain
    <2>2. CASE i = Len(s) + 1
        <3>1. i # 1 => s # <<>> /\ i - 1 = Len(s) /\ i - 1 \in 1 .. Len(s)
            BY <1>1, <2>2
        <3>2. i = 1 => s = <<>>
            BY <1>1, <2>2
        <3>3. ChainEnd(p, s) = IF i = 1 THEN p ELSE Last(Append(s, e)[i - 1])
            BY <1>1, <3>1, <3>2 DEF ChainEnd, Last
        <3> QED BY <1>1, <2>2, <3>3
    <2> QED BY <1>1, <1>2, <2>1, <2>2
<1>3. ChainEnd(p, Append(s, e)) = Last(e)
    BY <1>1 DEF ChainEnd, Last
<1> QED BY <1>1, <1>2, <1>3 DEF Chain

\* The first episode of a chain taken away, the rest is one that begins where it ends.
LEMMA ChainTail ==
    ASSUME NEW p, NEW s \in Seq(Episodes), s # <<>>, Chain(p, s)
    PROVE  /\ Head(s) = s[1] /\ s[1] \in Episodes /\ Follows(p, s[1][1])
           /\ Tail(s) \in Seq(Episodes) /\ Chain(Last(s[1]), Tail(s))
           /\ ChainEnd(Last(s[1]), Tail(s)) = ChainEnd(p, s)
<1>1. /\ Head(s) = s[1] /\ Len(s) \in Nat \ {0} /\ s[1] \in Episodes
      /\ Tail(s) \in Seq(Episodes) /\ Len(Tail(s)) = Len(s) - 1
      /\ \A i \in 1 .. Len(s) - 1 : Tail(s)[i] = s[i + 1]
    OBVIOUS
<1>5. Tail(s) = <<>> <=> Len(s) = 1
    BY <1>1
<1>2. Follows(p, s[1][1])
    BY <1>1 DEF Chain
<1>3. ASSUME NEW i \in 1 .. Len(s) - 1
      PROVE  Follows(IF i = 1 THEN Last(s[1]) ELSE Last(Tail(s)[i - 1]), Tail(s)[i][1])
    <2>1. i + 1 \in 1 .. Len(s) /\ i + 1 # 1 /\ i + 1 - 1 = i /\ (i # 1 => i - 1 \in 1 .. Len(s) - 1 /\ i - 1 + 1 = i)
        BY <1>1
    <2>2. Follows(Last(s[i]), s[i + 1][1])
        BY <2>1 DEF Chain
    <2>3. Tail(s)[i] = s[i + 1] /\ (i # 1 => Tail(s)[i - 1] = s[i])
        BY <1>1, <2>1
    <2> QED BY <2>2, <2>3
<1>4. ChainEnd(Last(s[1]), Tail(s)) = ChainEnd(p, s)
    <2>1. CASE Len(s) = 1
        BY <1>1, <1>5, <2>1 DEF ChainEnd, Last
    <2>2. CASE Len(s) > 1
        <3>1. Len(s) - 1 \in 1 .. Len(s) - 1 /\ Len(s) - 1 + 1 = Len(s)
            BY <1>1, <2>2
        <3>2. Last(Tail(s)) = Last(s) /\ Tail(s) # <<>>
            BY <1>1, <1>5, <2>2, <3>1 DEF Last
        <3> QED BY <3>2 DEF ChainEnd
    <2> QED BY <1>1, <2>1, <2>2
<1> QED BY <1>1, <1>2, <1>3, <1>4 DEF Chain

\* Nothing, and a single episode, as chains.
LEMMA ChainSmall ==
    ASSUME NEW p
    PROVE  /\ <<>> \in Seq(Episodes) /\ Chain(p, <<>>) /\ ChainEnd(p, <<>>) = p
           /\ \A e \in Episodes :
                 /\ <<e>> \in Seq(Episodes) /\ ChainEnd(p, <<e>>) = Last(e) /\ <<e>> # <<>>
                 /\ Chain(p, <<e>>) <=> Follows(p, e[1])
BY DEF Chain, ChainEnd, Last

\* The bodies of a queue, as bytes are put in and taken out.
LEMMA BodiesOfQueue ==
    ASSUME NEW queue \in Seq(Seq(Chunk))
    PROVE  /\ \A bytes \in Seq(Chunk) : Bodies(Append(queue, bytes)) = Append(Bodies(queue), Body(bytes))
           /\ queue # <<>> => /\ Bodies(queue) # <<>> /\ Bodies(queue)[1] = Body(queue[1])
                              /\ Bodies(Tail(queue)) = Tail(Bodies(queue))
           /\ queue = <<>> => Bodies(queue) = <<>>
<1> DEFINE S == {Body(queue[i]) : i \in 1 .. Len(queue)}
           b == Bodies(queue)
<1>1. b \in Seq(S) /\ Len(b) = Len(queue) /\ \A i \in 1 .. Len(queue) : b[i] = Body(queue[i])
    BY DEF Bodies
<1>2. ASSUME NEW bytes \in Seq(Chunk)
      PROVE  Bodies(Append(queue, bytes)) = Append(b, Body(bytes))
    <2> DEFINE T == S \cup {Body(bytes)}
               q == Append(queue, bytes)
    <2>1. q \in Seq(Seq(Chunk)) /\ Len(q) = Len(queue) + 1 /\ q[Len(queue) + 1] = bytes
          /\ \A i \in 1 .. Len(queue) : q[i] = queue[i]
        OBVIOUS
    <2>2. \A i \in 1 .. Len(queue) + 1 : Body(q[i]) \in T
        BY <2>1
    <2> HIDE DEF q, T
    <2>3. Bodies(q) \in Seq(T) /\ Len(Bodies(q)) = Len(queue) + 1
          /\ \A i \in 1 .. Len(queue) + 1 : Bodies(q)[i] = Body(q[i])
        BY <2>1, <2>2 DEF Bodies
    <2>4. b \in Seq(T) /\ Body(bytes) \in T
        BY <1>1 DEF T
    <2> HIDE DEF b
    <2>5. Append(b, Body(bytes)) \in Seq(T) /\ Len(Append(b, Body(bytes))) = Len(queue) + 1
          /\ Append(b, Body(bytes))[Len(queue) + 1] = Body(bytes)
          /\ \A i \in 1 .. Len(queue) : Append(b, Body(bytes))[i] = b[i]
        BY <1>1, <2>4
    <2>6. \A i \in 1 .. Len(queue) + 1 : Bodies(q)[i] = Append(b, Body(bytes))[i]
        BY <1>1, <2>1, <2>3, <2>5
    <2>7. Bodies(q) = Append(b, Body(bytes))
        BY <2>3, <2>5, <2>6, SeqEqual
    <2> QED BY <2>7 DEF q
<1>3. ASSUME queue # <<>> PROVE b # <<>> /\ b[1] = Body(queue[1]) /\ Bodies(Tail(queue)) = Tail(b)
    <2>1. Len(queue) \in Nat \ {0}
        BY <1>3
    <2>2. b # <<>> /\ b[1] = Body(queue[1])
        BY <1>1, <2>1
    <2>3. /\ Len(Tail(queue)) = Len(queue) - 1 /\ Tail(queue) \in Seq(Seq(Chunk))
          /\ \A i \in 1 .. Len(queue) - 1 : Tail(queue)[i] = queue[i + 1] /\ i + 1 \in 1 .. Len(queue)
        BY <1>3, <2>1
    <2> HIDE DEF b, S
    <2>4. Tail(b) \in Seq(S) /\ Len(Tail(b)) = Len(queue) - 1
          /\ \A i \in 1 .. Len(queue) - 1 : Tail(b)[i] = b[i + 1]
        BY <1>1, <2>1, <2>2
    <2>5. Bodies(Tail(queue)) \in Seq(S) /\ Len(Bodies(Tail(queue))) = Len(queue) - 1
          /\ \A i \in 1 .. Len(queue) - 1 : Bodies(Tail(queue))[i] = Body(queue[i + 1])
        BY <2>3 DEF Bodies, S
    <2>6. \A i \in 1 .. Len(queue) - 1 : Bodies(Tail(queue))[i] = Tail(b)[i]
        BY <1>1, <2>3, <2>4, <2>5
    <2>7. Bodies(Tail(queue)) = Tail(b)
        BY <2>4, <2>5, <2>6, SeqEqual
    <2> QED BY <2>2, <2>7
<1>4. queue = <<>> => b = <<>>
    BY <1>1
<1> QED BY <1>2, <1>3, <1>4

(***************************************************************************)
(* Types and payloads.                                                     *)
(***************************************************************************)
\* A call that is over keeps nothing.
LEMMA CallOver ==
    ASSUME StreamTypes, PayloadsWhole, NEW s \in Streams, EndCall(s), UNCHANGED inbox
    PROVE  /\ StreamTypes' /\ PayloadsWhole'
           /\ call'[s] = "ended" /\ chunks'[s] = <<>>
           /\ \A t \in Streams \ {s} : call'[t] = call[t] /\ chunks'[t] = chunks[t]
BY DEF StreamTypes, PayloadsWhole, EndCall

\* A payload is cut into chunks, none of which has been received.
LEMMA CutPayload ==
    ASSUME StreamTypes, PayloadsWhole, NEW s \in Streams, chunks[s] = <<>>,
           NEW body \in Seq(Numbered), NEW n \in Nat \ {0},
           chunks' = [chunks EXCEPT ![s] = SendBytesInChunks(body, n)],
           UNCHANGED <<call, received, inbox>>
    PROVE  /\ StreamTypes' /\ PayloadsWhole'
           /\ chunks'[s] # <<>> /\ Body(chunks'[s]) = body
           /\ \A t \in Streams \ {s} : chunks'[t] = chunks[t]
<1> DEFINE c == SendBytesInChunks(body, n)
<1>1. c \in Seq(Chunk) /\ c # <<>> /\ Body(c) = body /\ Payload(c) = c
    BY CutIntoChunks, PayloadOfItself
<1> HIDE DEF c
<1>2. /\ chunks'[s] = c /\ \A t \in Streams \ {s} : chunks'[t] = chunks[t]
      /\ chunks' \in [Streams -> Seq(Chunk)]
    BY <1>1 DEF StreamTypes, c
<1>3. received[s] = <<>> /\ <<>> \o c = c
    BY <1>1, ConcatEmptySeq DEF PayloadsWhole
<1>4. PayloadsWhole'
    <2> SUFFICES ASSUME NEW t \in Streams
                 PROVE  /\ chunks'[t] = <<>> => received[t] = <<>>
                        /\ chunks'[t] # <<>> => received[t] \o chunks'[t] = Payload(chunks'[t])
                        /\ \A i \in 1 .. Len(inbox[t]) : inbox[t][i] # <<>> /\ inbox[t][i] = Payload(inbox[t][i])
        BY DEF PayloadsWhole, Payload, Body
    <2>1. CASE t = s
        BY <1>1, <1>2, <1>3, <2>1 DEF PayloadsWhole
    <2>2. CASE t # s
        BY <1>2, <2>2 DEF PayloadsWhole
    <2> QED BY <2>1, <2>2
<1> QED BY <1>1, <1>2, <1>4 DEF StreamTypes

\* A payload is taken out of a receiver's queue, or all of them are.
LEMMA TakePayload ==
    ASSUME StreamTypes, PayloadsWhole, NEW s \in Streams,
           \/ inbox[s] # <<>> /\ inbox' = [inbox EXCEPT ![s] = Tail(@)]
           \/ inbox' = [inbox EXCEPT ![s] = <<>>],
           UNCHANGED <<call, chunks, received>>
    PROVE  StreamTypes' /\ PayloadsWhole'
<1>1. ASSUME NEW t \in Streams
      PROVE  /\ inbox'[t] \in Seq(Seq(Chunk))
             /\ \A i \in 1 .. Len(inbox'[t]) : inbox'[t][i] # <<>> /\ inbox'[t][i] = Payload(inbox'[t][i])
    <2>1. CASE t # s
        BY <2>1 DEF StreamTypes, PayloadsWhole
    <2>2. CASE t = s /\ inbox'[t] = <<>>
        BY <2>2
    <2>3. CASE t = s /\ inbox[s] # <<>> /\ inbox'[t] = Tail(inbox[s])
        <3>1. /\ inbox[s] \in Seq(Seq(Chunk)) /\ Len(inbox[s]) \in Nat /\ Tail(inbox[s]) \in Seq(Seq(Chunk))
              /\ Len(Tail(inbox[s])) = Len(inbox[s]) - 1
              /\ \A i \in 1 .. Len(Tail(inbox[s])) : Tail(inbox[s])[i] = inbox[s][i + 1]
            BY <2>3, HeadTailProperties DEF StreamTypes
        <3>2. \A i \in 1 .. Len(Tail(inbox[s])) : i + 1 \in 1 .. Len(inbox[s])
            BY <3>1
        <3>3. \A i \in 1 .. Len(inbox[s]) : inbox[s][i] # <<>> /\ inbox[s][i] = Payload(inbox[s][i])
            BY DEF PayloadsWhole
        <3> QED BY <2>3, <3>1, <3>2, <3>3
    <2> QED BY <2>1, <2>2, <2>3 DEF StreamTypes
<1>2. inbox' \in [Streams -> Seq(Seq(Chunk))]
    <2>1. \/ inbox' = [inbox EXCEPT ![s] = Tail(@)]
          \/ inbox' = [inbox EXCEPT ![s] = <<>>]
        OBVIOUS
    <2>2. inbox' = [t \in Streams |-> inbox'[t]]
        BY <2>1 DEF StreamTypes
    <2> QED BY <1>1, <2>2
<1> QED BY <1>1, <1>2 DEF StreamTypes, PayloadsWhole, Payload, Body

\* A chunk is received: with the last one, the payload is put in the queue.
LEMMA ReceiveChunk ==
    ASSUME StreamTypes, PayloadsWhole, NEW s \in Streams, chunks[s] # <<>>,
           ReceiveBytes(s, Head(chunks[s])), chunks' = [chunks EXCEPT ![s] = Tail(@)], UNCHANGED call
    PROVE  /\ StreamTypes' /\ PayloadsWhole'
           /\ \A t \in Streams \ {s} : chunks'[t] = chunks[t] /\ inbox'[t] = inbox[t]
           /\ Len(chunks[s]) = 1 =>
                 /\ chunks'[s] = <<>>
                 /\ \E bytes \in Seq(Chunk) : /\ inbox'[s] = Append(inbox[s], bytes)
                                              /\ Body(bytes) = Body(chunks[s])
           /\ Len(chunks[s]) # 1 =>
                 chunks'[s] # <<>> /\ Body(chunks'[s]) = Body(chunks[s]) /\ inbox' = inbox
<1> DEFINE q == chunks[s]
           bytes == Append(received[s], Head(q))
<1>1. /\ q \in Seq(Chunk) /\ received[s] \in Seq(Chunk) /\ inbox[s] \in Seq(Seq(Chunk))
      /\ q # <<>> /\ received[s] \o q = Payload(q)
    BY DEF StreamTypes, PayloadsWhole
<1>2. Append(IF Head(q).state = "begin" THEN <<>> ELSE received[s], Head(q)) = bytes
    BY <1>1, ReceivedWhole
<1>3. Head(q).state = "end" <=> Len(q) = 1
    BY <1>1, ReceivedWhole
<1>4. bytes \in Seq(Chunk) /\ Tail(q) \in Seq(Chunk)
    BY <1>1, HeadTailProperties
<1>5. /\ chunks'[s] = Tail(q) /\ \A t \in Streams \ {s} : chunks'[t] = chunks[t]
      /\ chunks' \in [Streams -> Seq(Chunk)]
    BY <1>4 DEF StreamTypes
<1>6. CASE Len(q) = 1
    <2>1. /\ Tail(q) = <<>> /\ bytes # <<>> /\ Body(bytes) = Body(q) /\ Payload(bytes) = bytes
        BY <1>1, <1>3, <1>6, ReceivedWhole
    <2>2. received' = [received EXCEPT ![s] = <<>>] /\ inbox' = [inbox EXCEPT ![s] = Append(@, bytes)]
        BY <1>2, <1>3, <1>6 DEF ReceiveBytes
    <2> HIDE DEF bytes, q
    <2>3. /\ received'[s] = <<>> /\ \A t \in Streams \ {s} : received'[t] = received[t]
          /\ received' \in [Streams -> Seq(Chunk)]
        BY <2>2 DEF StreamTypes
    <2>4. /\ inbox'[s] = Append(inbox[s], bytes) /\ \A t \in Streams \ {s} : inbox'[t] = inbox[t]
          /\ inbox' \in [Streams -> Seq(Seq(Chunk))]
        BY <1>4, <2>2 DEF StreamTypes
    <2>5. \A i \in 1 .. Len(inbox'[s]) : inbox'[s][i] # <<>> /\ inbox'[s][i] = Payload(inbox'[s][i])
        <3>1. /\ Len(Append(inbox[s], bytes)) = Len(inbox[s]) + 1 /\ Len(inbox[s]) \in Nat
              /\ Append(inbox[s], bytes)[Len(inbox[s]) + 1] = bytes
              /\ \A i \in 1 .. Len(inbox[s]) : Append(inbox[s], bytes)[i] = inbox[s][i]
            BY <1>1, <1>4
        <3>2. \A i \in 1 .. Len(inbox[s]) : inbox[s][i] # <<>> /\ inbox[s][i] = Payload(inbox[s][i])
            BY DEF PayloadsWhole
        <3>3. \A i \in 1 .. Len(inbox[s]) + 1 : i \in 1 .. Len(inbox[s]) \/ i = Len(inbox[s]) + 1
            BY <3>1
        <3> DEFINE longer == Append(inbox[s], bytes)
        <3>4. inbox'[s] = longer /\ Len(longer) = Len(inbox[s]) + 1
            BY <2>4, <3>1
        <3>5. \A i \in 1 .. Len(inbox[s]) + 1 : longer[i] # <<>> /\ longer[i] = Payload(longer[i])
            BY <2>1, <3>1, <3>2, <3>3
        <3> HIDE DEF longer
        <3> QED BY <3>4, <3>5
    <2>6. PayloadsWhole'
        <3> SUFFICES ASSUME NEW t \in Streams
                     PROVE  /\ chunks'[t] = <<>> => received'[t] = <<>>
                            /\ chunks'[t] # <<>> => received'[t] \o chunks'[t] = Payload(chunks'[t])
                            /\ \A i \in 1 .. Len(inbox'[t]) : inbox'[t][i] # <<>> /\ inbox'[t][i] = Payload(inbox'[t][i])
            BY DEF PayloadsWhole, Payload, Body
        <3>1. CASE t = s
            BY <1>5, <2>1, <2>3, <2>5, <3>1
        <3>2. CASE t # s
            <4>1. chunks'[t] = chunks[t] /\ received'[t] = received[t] /\ inbox'[t] = inbox[t]
                BY <1>5, <2>3, <2>4, <3>2
            <4> QED BY <4>1 DEF PayloadsWhole
        <3> QED BY <3>1, <3>2
    <2> QED BY <1>4, <1>5, <1>6, <2>1, <2>3, <2>4, <2>6 DEF StreamTypes, q
<1>7. CASE Len(q) # 1
    <2>1. /\ Tail(q) # <<>> /\ bytes \o Tail(q) = Payload(Tail(q)) /\ Body(Tail(q)) = Body(q)
        BY <1>1, <1>3, <1>7, ReceivedWhole
    <2>2. received' = [received EXCEPT ![s] = bytes] /\ inbox' = inbox
        BY <1>2, <1>3, <1>7 DEF ReceiveBytes
    <2> HIDE DEF bytes, q
    <2>3. /\ received'[s] = bytes /\ \A t \in Streams \ {s} : received'[t] = received[t]
          /\ received' \in [Streams -> Seq(Chunk)]
        BY <1>4, <2>2 DEF StreamTypes
    <2>4. PayloadsWhole'
        <3> SUFFICES ASSUME NEW t \in Streams
                     PROVE  /\ chunks'[t] = <<>> => received'[t] = <<>>
                            /\ chunks'[t] # <<>> => received'[t] \o chunks'[t] = Payload(chunks'[t])
                            /\ \A i \in 1 .. Len(inbox[t]) : inbox[t][i] # <<>> /\ inbox[t][i] = Payload(inbox[t][i])
            BY <2>2 DEF PayloadsWhole, Payload, Body
        <3>1. CASE t = s
            BY <1>5, <2>1, <2>3, <3>1 DEF PayloadsWhole
        <3>2. CASE t # s
            BY <1>5, <2>3, <3>2 DEF PayloadsWhole
        <3> QED BY <3>1, <3>2
    <2> QED BY <1>5, <1>7, <2>1, <2>2, <2>3, <2>4 DEF StreamTypes, q
<1> QED BY <1>6, <1>7

\* Where no payload moves, calls may begin.
LEMMA StreamsKept ==
    ASSUME StreamTypes, PayloadsWhole, UNCHANGED <<chunks, received, inbox>>,
           call' \in [Streams -> {"none", "called", "up", "ended"}]
    PROVE  StreamTypes' /\ PayloadsWhole'
BY DEF StreamTypes, PayloadsWhole, Payload, Body

\* The steps of the actor, of the learner and of the streams, and the faults, leave
\* program counters and numbers in their ranges.
LEMMA RunTypesInv == RunTypes /\ LinkNext => RunTypes'
<1> SUFFICES ASSUME RunTypes, LinkNext PROVE RunTypes'
    OBVIOUS
<1> USE DEF RunTypes, linkVars, actorVars, streamVars, learnerVars
<1>1. CASE Act
    BY <1>1 DEF Act, EstablishConnection, ConnectionFails, ActStep, PushEpisode, CloseQueues, JoinStreams
<1>2. CASE \E s \in Senders : SenderStep(s)
    BY <1>2 DEF SenderStep, StartCall, CallFails, StreamEnds, LearnerReceives, GetMessage
<1>3. CASE ParametersStep \/ OrphanEnds
    BY <1>3 DEF ParametersStep, StartCall, CallFails, ParametersEnd, ActorReceives, StreamParameters, OrphanEnds
<1>4. CASE Learn \/ LearnerWaits \/ StopServer \/ LinkRests
    BY <1>4 DEF Learn, ProcessTransitions, Train, LearnerLeaves, LearnerWaits, StopServer, LinkRests
<1>5. CASE LinkFault
    BY <1>5 DEF LinkFault, ActorSignalled, LearnerSignalled, ActorStartedAgain
<1> QED BY <1>1, <1>2, <1>3, <1>4, <1>5 DEF LinkNext

\* The names of the streams.
LEMMA ThreeStreams ==
    /\ "transitions" \in Streams /\ "interactions" \in Streams /\ "parameters" \in Streams
    /\ "transitions" \in Senders /\ Senders \subseteq Streams /\ "parameters" \notin Senders
BY DEF Streams, Senders

\* Every step keeps payloads whole.
LEMMA StreamsInv == LinkInv /\ LinkNext => StreamTypes' /\ PayloadsWhole'
<1> SUFFICES ASSUME LinkInv, LinkNext PROVE StreamTypes' /\ PayloadsWhole'
    OBVIOUS
<1>0. StreamTypes /\ PayloadsWhole
    BY DEF LinkInv
<1>1. CASE UNCHANGED streamVars
    BY <1>0, <1>1, StreamsKept DEF streamVars, StreamTypes
<1>2. CASE EstablishConnection
    <2>1. call' \in [Streams -> {"none", "called", "up", "ended"}]
        BY <1>2 DEF EstablishConnection, OnStreams
    <2> QED BY <1>0, <1>2, <2>1, StreamsKept DEF EstablishConnection
<1>3. CASE \E ends \in BOOLEAN : ActStep(ends)
    <2>1. UNCHANGED streamVars \/ (UpdatePolicyParameters /\ UNCHANGED <<call, chunks, received>>)
        BY <1>3 DEF ActStep, streamVars
    <2> QED BY <1>0, <1>1, <2>1, TakePayload, ThreeStreams DEF UpdatePolicyParameters
<1>4. CASE \E s \in Streams : StartCall(s)
    <2>1. call' \in [Streams -> {"none", "called", "up", "ended"}] /\ UNCHANGED <<chunks, received, inbox>>
        BY <1>0, <1>4 DEF StartCall, StreamTypes
    <2> QED BY <1>0, <2>1, StreamsKept
<1>5. CASE \E s \in Streams : EndCall(s) /\ UNCHANGED inbox
    BY <1>0, <1>5, CallOver
<1>6. CASE \E parts \in 1 .. MaxParts : GetMessage(parts)
    <2>1. PICK parts \in 1 .. MaxParts : GetMessage(parts)
        BY <1>6
    <2>2. Head(outbox) \in Seq(Numbered)
        <3>1. outbox \in Seq(Episodes) /\ outbox # <<>>
            BY <2>1 DEF LinkInv, OrderInv, PushedInOrder, GetMessage
        <3>2. Head(outbox) \in Seq(Transitions) /\ Transitions \subseteq Numbered
            BY <3>1 DEF Episodes, Transitions, Numbered
        <3> QED BY <3>2, SeqMonotonic
    <2>3. parts \in Nat \ {0}
        OBVIOUS
    <2> QED BY <1>0, <2>1, <2>2, <2>3, CutPayload, ThreeStreams DEF GetMessage
<1>7. CASE LearnerReceives
    <2>1. CASE EndCall("transitions") /\ UNCHANGED inbox
        BY <1>5, <2>1, ThreeStreams
    <2>2. CASE ~(EndCall("transitions") /\ UNCHANGED inbox)
        BY <1>0, <1>7, <2>2, ReceiveChunk, ThreeStreams DEF LearnerReceives
    <2> QED BY <2>1, <2>2
<1>8. CASE \E parts \in 1 .. MaxParts : StreamParameters(parts)
    <2>1. PICK parts \in 1 .. MaxParts : StreamParameters(parts)
        BY <1>8
    <2>2. << <<0, Last(parametersQueue)>> >> \in Seq(Numbered)
        <3>1. parametersQueue \in Seq(1 .. MaxVersions) /\ parametersQueue # <<>>
            BY <2>1 DEF LinkInv, VersionsGrow, StreamParameters
        <3>2. Last(parametersQueue) \in Nat
            BY <3>1 DEF Last
        <3> QED BY <3>2 DEF Numbered
    <2>3. parts \in Nat \ {0}
        OBVIOUS
    <2> QED BY <1>0, <2>1, <2>2, <2>3, CutPayload, ThreeStreams DEF StreamParameters
<1>9. CASE ActorReceives
    <2>1. CASE EndCall("parameters") /\ UNCHANGED inbox
        BY <1>5, <2>1, ThreeStreams
    <2>2. CASE ~(EndCall("parameters") /\ UNCHANGED inbox)
        BY <1>0, <1>9, <2>2, ReceiveChunk, ThreeStreams DEF ActorReceives
    <2> QED BY <2>1, <2>2
<1>10. CASE ProcessTransitions
    <2>1. UNCHANGED streamVars \/
          (/\ inbox["transitions"] # <<>> /\ inbox' = [inbox EXCEPT !["transitions"] = Tail(@)]
           /\ UNCHANGED <<call, chunks, received>>)
        BY <1>10 DEF ProcessTransitions, streamVars
    <2> QED BY <1>0, <1>1, <2>1, TakePayload, ThreeStreams
<1>11. CASE ActorStartedAgain
    <2>1. /\ call' \in [Streams -> {"none", "called", "up", "ended"}]
          /\ chunks' \in [Streams -> Seq(Chunk)] /\ received' \in [Streams -> Seq(Chunk)]
          /\ \A s \in Streams : chunks'[s] = <<>> /\ received'[s] = <<>>
          /\ inbox' = [inbox EXCEPT !["parameters"] = <<>>]
        BY <1>11 DEF ActorStartedAgain, OnStreams
    <2>2. /\ inbox' \in [Streams -> Seq(Seq(Chunk))]
          /\ \A s \in Streams : inbox'[s] = <<>> \/ inbox'[s] = inbox[s]
        <3>1. inbox \in [Streams -> Seq(Seq(Chunk))]
            BY <1>0 DEF StreamTypes
        <3>2. \A s \in Streams : inbox'[s] = IF s = "parameters" THEN <<>> ELSE inbox[s]
            BY <2>1, <3>1
        <3>3. inbox' = [s \in Streams |-> inbox'[s]]
            BY <2>1, <3>1
        <3>4. \A s \in Streams : inbox'[s] \in Seq(Seq(Chunk))
            <4>1. <<>> \in Seq(Seq(Chunk))
                BY EmptySeq
            <4>2. \A s \in Streams : inbox[s] \in Seq(Seq(Chunk))
                BY <3>1
            <4> QED BY <3>2, <4>1, <4>2
        <3> QED BY <3>2, <3>3, <3>4
    <2> QED BY <1>0, <2>1, <2>2 DEF StreamTypes, PayloadsWhole, Payload, Body
<1>12. UNCHANGED streamVars
       \/ EstablishConnection \/ (\E ends \in BOOLEAN : ActStep(ends))
       \/ (\E s \in Streams : StartCall(s)) \/ (\E s \in Streams : EndCall(s) /\ UNCHANGED inbox)
       \/ (\E parts \in 1 .. MaxParts : GetMessage(parts)) \/ LearnerReceives
       \/ (\E parts \in 1 .. MaxParts : StreamParameters(parts)) \/ ActorReceives
       \/ ProcessTransitions \/ ActorStartedAgain
    <2>1. CASE Act
        BY <2>1 DEF Act, ConnectionFails, PushEpisode, CloseQueues, JoinStreams
    <2>2. CASE \E s \in Senders : SenderStep(s)
        BY <2>2, ThreeStreams DEF SenderStep, CallFails, StreamEnds
    <2>3. CASE ParametersStep
        BY <2>3, ThreeStreams DEF ParametersStep, CallFails, ParametersEnd
    <2>4. CASE OrphanEnds \/ Learn \/ LearnerWaits \/ StopServer \/ LinkFault \/ LinkRests
        BY <2>4 DEF OrphanEnds, Learn, Train, LearnerLeaves, LearnerWaits, StopServer, LinkFault,
                    ActorSignalled, LearnerSignalled, LinkRests, linkVars
    <2> QED BY <2>1, <2>2, <2>3, <2>4 DEF LinkNext
<1> QED BY <1>1, <1>2, <1>3, <1>4, <1>5, <1>6, <1>7, <1>8, <1>9, <1>10, <1>11, <1>12

(***************************************************************************)
(* The order of the transitions.                                           *)
(***************************************************************************)

\* The last step of an episode is one.
LEMMA EpisodeEnds ==
    ASSUME NEW e \in Episodes
    PROVE  /\ e \in Seq(Transitions) /\ Len(e) \in Nat \ {0} /\ e # <<>> /\ Last(e) = e[Len(e)]
           /\ e[1] \in Transitions /\ Last(e) \in Transitions /\ Last(e)[1] \in Nat
           /\ \A i \in 1 .. Len(e) - 1 : e[i + 1] = <<e[i][1], e[i][2] + 1>>
<1>1. e \in Seq(Transitions) /\ e # <<>>
    BY DEF Episodes
<1>2. Len(e) \in Nat \ {0}
    BY <1>1
<1>3. Last(e) \in Transitions /\ e[1] \in Transitions
    BY <1>1, <1>2 DEF Last
<1> QED BY <1>1, <1>2, <1>3 DEF Last, Episodes, Transitions

\* What is stored when an episode is added that follows it.
LEMMA StoreEpisode ==
    ASSUME NEW e \in Episodes, stored \in Seq(Transitions), StoredInOrder,
           Follows(LastStored, e[1]), stored' = stored \o e
    PROVE  stored' \in Seq(Transitions) /\ StoredInOrder' /\ LastStored' = Last(e)
<1> DEFINE n == Len(stored)
           s == stored \o e
<1>1. /\ n \in Nat /\ Len(e) \in Nat \ {0} /\ s \in Seq(Transitions) /\ Len(s) = n + Len(e)
      /\ \A i \in 1 .. n + Len(e) : s[i] = IF i <= n THEN stored[i] ELSE e[i - n]
    BY EpisodeEnds, ConcatProperties
<1>2. n = 0 <=> stored = <<>>
    OBVIOUS
<1>3. \A i \in 1 .. n : Follows(IF i = 1 THEN <<0, 0>> ELSE stored[i - 1], stored[i])
    BY <1>1 DEF StoredInOrder, Follows
<1>4. LastStored = IF n = 0 THEN <<0, 0>> ELSE stored[n]
    BY <1>2 DEF LastStored, Last
<1> HIDE DEF n, s
<1>5. ASSUME NEW i \in 1 .. n + Len(e)
      PROVE  Follows(IF i = 1 THEN <<0, 0>> ELSE s[i - 1], s[i])
    <2>1. CASE i <= n
        <3>1. i \in 1 .. n /\ s[i] = stored[i] /\ (i # 1 => s[i - 1] = stored[i - 1])
            BY <1>1, <2>1
        <3> QED BY <1>3, <3>1
    <2>2. CASE i = n + 1
        <3>1. s[i] = e[1] /\ (i # 1 => n # 0 /\ s[i - 1] = stored[n]) /\ (i = 1 => n = 0)
            BY <1>1, <2>2
        <3> QED BY <1>4, <3>1
    <2>3. CASE i > n + 1
        <3> DEFINE j == i - n - 1
        <3>1. /\ j \in 1 .. Len(e) - 1 /\ i - n = j + 1 /\ i - 1 - n = j /\ i # 1
              /\ i - 1 \in 1 .. n + Len(e) /\ ~(i <= n) /\ ~(i - 1 <= n)
            BY <1>1, <2>3
        <3>2. s[i] = e[j + 1] /\ s[i - 1] = e[j]
            BY <1>1, <3>1
        <3>3. e[j + 1] = <<e[j][1], e[j][2] + 1>>
            BY <3>1, EpisodeEnds
        <3> QED BY <3>1, <3>2, <3>3 DEF Follows
    <2> QED BY <1>1, <2>1, <2>2, <2>3
<1>6. stored' = s
    BY DEF s
<1>7. StoredInOrder'
    <2>1. DOMAIN stored' = 1 .. n + Len(e)
        BY <1>1, <1>6
    <2> QED BY <1>5, <1>6, <2>1 DEF StoredInOrder, Follows
<1>8. LastStored' = Last(e)
    <2>1. n + Len(e) \in 1 .. n + Len(e) /\ ~(n + Len(e) <= n) /\ n + Len(e) - n = Len(e)
        BY <1>1
    <2>2. s[n + Len(e)] = e[Len(e)]
        BY <1>1, <2>1
    <2>3. s # <<>>
        BY <1>1
    <2> QED BY <1>1, <1>6, <2>2, <2>3 DEF LastStored, Last
<1> QED BY <1>1, <1>6, <1>7, <1>8

\* Where no transition moves and no episode grows.
LEMMA OrderKept ==
    ASSUME OrderInv, Arrived' = Arrived, Sent' = Sent,
           UNCHANGED <<stored, outbox, run, interactionStep, episode>>,
           call'["transitions"] # "ended" => call["transitions"] # "ended",
           actorPc' = "push" => actorPc = "push",
           actorPc' = "ready" => actorPc = "ready" /\ call'["transitions"] = call["transitions"]
    PROVE  OrderInv'
<1> USE DEF OrderInv
<1>1. LastStored' = LastStored /\ LastArrived' = LastArrived /\ LastSent' = LastSent
      /\ LastPushed' = LastPushed /\ NextStep' = NextStep
    BY DEF LastStored, LastArrived, LastSent, LastPushed, NextStep, ChainEnd, Last
<1>2. ArrivedInOrder'
    BY <1>1 DEF ArrivedInOrder, UpToRun, Chain
<1>3. SentInOrder'
    BY <1>1 DEF SentInOrder, UpToRun, Chain
<1>4. PushedInOrder'
    BY <1>1 DEF PushedInOrder, UpToRun, Chain
<1>5. EpisodeInOrder'
    BY DEF EpisodeInOrder
<1>6. StoredInOrder'
    BY DEF StoredInOrder
<1> QED BY <1>2, <1>3, <1>4, <1>5, <1>6

\* When the call is over, nothing more of what was pushed follows.
LEMMA OrderCut ==
    ASSUME OrderInv, Arrived' = Arrived, Sent' = <<>>,
           UNCHANGED <<stored, outbox, run, interactionStep, episode, actorPc>>,
           call'["transitions"] = "ended", actorPc # "ready"
    PROVE  OrderInv'
<1> USE DEF OrderInv
<1>1. LastStored' = LastStored /\ LastArrived' = LastArrived
    BY DEF LastStored, LastArrived, ChainEnd, Last
<1>2. ArrivedInOrder'
    BY <1>1 DEF ArrivedInOrder, UpToRun, Chain
<1>3. SentInOrder'
    BY ChainSmall DEF SentInOrder, UpToRun, Chain
<1>4. PushedInOrder'
    BY DEF PushedInOrder, UpToRun
<1>5. EpisodeInOrder'
    BY DEF EpisodeInOrder
<1>6. StoredInOrder'
    BY DEF StoredInOrder
<1> QED BY <1>2, <1>3, <1>4, <1>5, <1>6

\* A step of the environment is the next one of the episode.
LEMMA ActOrder ==
    ASSUME LinkInv, NEW ends \in BOOLEAN, ActStep(ends)
    PROVE  OrderInv'
<1> USE DEF LinkInv, OrderInv
<1>1. /\ actorPc = "act" /\ interactionStep < OnlineSteps /\ interactionStep' = interactionStep + 1
      /\ episode' = Append(episode, <<run, interactionStep + 1>>)
      /\ UNCHANGED <<stored, outbox, run, call, chunks>> /\ actorPc' \in {"act", "push"}
    BY DEF ActStep, learnerVars
<1>2. inbox'["transitions"] = inbox["transitions"]
    BY ThreeStreams DEF ActStep, UpdatePolicyParameters, StreamTypes
<1>3. Arrived' = Arrived /\ Sent' = Sent
    BY <1>1, <1>2 DEF Arrived, Sent, Bodies, Body
<1>4. run \in Nat /\ interactionStep \in Nat /\ <<run, interactionStep + 1>> \in Transitions
    BY <1>1 DEF RunTypes, Transitions
<1> DEFINE e == Append(episode, <<run, interactionStep + 1>>)
           n == Len(episode)
<1>5. /\ n \in Nat /\ e \in Seq(Transitions) /\ Len(e) = n + 1 /\ e # <<>>
      /\ e[n + 1] = <<run, interactionStep + 1>> /\ \A i \in 1 .. n : e[i] = episode[i]
    <2>1. episode \in Seq(Transitions)
        BY DEF EpisodeInOrder
    <2> QED BY <1>4, <2>1
<1>6. n <= interactionStep /\ \A i \in 1 .. n : episode[i] = <<run, interactionStep - n + i>>
    BY DEF EpisodeInOrder
<1>7. episode' = e
    BY <1>1
<1> HIDE DEF e, n
<1>8. \A i \in 1 .. n + 1 : e[i] = <<run, (interactionStep + 1) - (n + 1) + i>>
    <2> TAKE i \in 1 .. n + 1
    <2>1. CASE i <= n
        <3>1. i \in 1 .. n /\ (interactionStep + 1) - (n + 1) + i = interactionStep - n + i
            BY <1>4, <1>5, <2>1
        <3> QED BY <1>5, <1>6, <3>1
    <2>2. CASE i = n + 1
        <3>1. (interactionStep + 1) - (n + 1) + i = interactionStep + 1
            BY <1>4, <1>5, <2>2
        <3> QED BY <1>5, <2>2, <3>1
    <2> QED BY <1>5, <2>1, <2>2
<1>9. NextStep' = NextStep
    <2>1. (interactionStep + 1) - (n + 1) + 1 = interactionStep - n + 1
        BY <1>4, <1>5
    <2> QED BY <1>1, <1>5, <1>7, <2>1 DEF NextStep, n
<1>10. EpisodeInOrder'
    <2>1. n + 1 <= interactionStep + 1
        BY <1>4, <1>5, <1>6
    <2>2. episode' \in Seq(Transitions) /\ Len(episode') = n + 1 /\ Len(episode') <= interactionStep'
        BY <1>1, <1>5, <1>7, <2>1
    <2>3. \A i \in 1 .. Len(episode') : episode'[i] = <<run', interactionStep' - Len(episode') + i>>
        BY <1>1, <1>7, <1>8, <2>2
    <2>4. actorPc' # "ready" /\ episode' # <<>>
        BY <1>1, <1>5, <1>7
    <2> QED BY <2>2, <2>3, <2>4 DEF EpisodeInOrder
<1>11. LastStored' = LastStored /\ LastArrived' = LastArrived /\ LastSent' = LastSent /\ LastPushed' = LastPushed
    BY <1>1, <1>3 DEF LastStored, LastArrived, LastSent, LastPushed, ChainEnd, Last
<1>12. ArrivedInOrder'
    BY <1>1, <1>3, <1>11 DEF ArrivedInOrder, UpToRun, Chain
<1>13. SentInOrder'
    BY <1>1, <1>3, <1>11 DEF SentInOrder, UpToRun, Chain
<1>14. PushedInOrder'
    BY <1>1, <1>3, <1>9, <1>11 DEF PushedInOrder, UpToRun, Chain
<1>15. StoredInOrder'
    BY <1>1 DEF StoredInOrder
<1> QED BY <1>10, <1>12, <1>13, <1>14, <1>15

\* A finished episode follows what was pushed before it, and ends with the newest step.
LEMMA PushOrder ==
    ASSUME LinkInv, PushEpisode
    PROVE  OrderInv'
<1> USE DEF LinkInv, OrderInv
<1>1. /\ actorPc = "push" /\ actorPc' = "act" /\ outbox' = Append(outbox, episode) /\ episode' = <<>>
      /\ UNCHANGED <<stored, run, interactionStep, call, chunks, inbox>>
    BY DEF PushEpisode, learnerVars, streamVars
<1>2. Arrived' = Arrived /\ Sent' = Sent
    BY <1>1 DEF Arrived, Sent, Bodies, Body
<1>3. LastStored' = LastStored /\ LastArrived' = LastArrived /\ LastSent' = LastSent
    BY <1>1, <1>2 DEF LastStored, LastArrived, LastSent, ChainEnd, Last
<1> DEFINE n == Len(episode)
<1>4. /\ n \in Nat \ {0} /\ n <= interactionStep /\ interactionStep \in Nat /\ run \in Nat
      /\ episode \in Seq(Transitions) /\ episode # <<>>
      /\ \A i \in 1 .. n : episode[i] = <<run, interactionStep - n + i>>
    BY <1>1 DEF EpisodeInOrder, RunTypes
<1> HIDE DEF n
<1>5. episode[1] = NextStep
    BY <1>4 DEF NextStep, n
<1>6. Last(episode) = <<run, interactionStep>>
    <2>1. n \in 1 .. n /\ interactionStep - n + n = interactionStep
        BY <1>4
    <2> QED BY <1>4, <2>1 DEF Last, n
<1>7. episode \in Episodes
    <2>1. ASSUME NEW i \in 1 .. n - 1
          PROVE  episode[i + 1] = <<episode[i][1], episode[i][2] + 1>>
        <3>1. i \in 1 .. n /\ i + 1 \in 1 .. n /\ interactionStep - n + (i + 1) = interactionStep - n + i + 1
            BY <1>4
        <3>2. episode[i] = <<run, interactionStep - n + i>> /\ episode[i + 1] = <<run, interactionStep - n + (i + 1)>>
            BY <1>4, <3>1
        <3> QED BY <3>1, <3>2
    <2> QED BY <1>4, <2>1 DEF Episodes, n
<1>8. NextStep' = <<run, interactionStep + 1>>
    BY <1>1, <1>4 DEF NextStep
<1>9. outbox' \in Seq(Episodes) /\ UpToRun(outbox)'
    <2>1. outbox \in Seq(Episodes) /\ \A i \in 1 .. Len(outbox) : Last(outbox[i])[1] <= run
        BY DEF PushedInOrder, UpToRun
    <2>2. /\ Append(outbox, episode) \in Seq(Episodes) /\ Len(Append(outbox, episode)) = Len(outbox) + 1
          /\ Len(outbox) \in Nat /\ Append(outbox, episode)[Len(outbox) + 1] = episode
          /\ \A i \in 1 .. Len(outbox) : Append(outbox, episode)[i] = outbox[i]
        BY <1>7, <2>1
    <2>3. \A i \in 1 .. Len(outbox) + 1 : i \in 1 .. Len(outbox) \/ i = Len(outbox) + 1
        BY <2>2
    <2>4. Last(episode)[1] <= run
        BY <1>4, <1>6
    <2>5. \A i \in 1 .. Len(outbox) + 1 : Last(Append(outbox, episode)[i])[1] <= run
        BY <2>1, <2>2, <2>3, <2>4
    <2> QED BY <1>1, <2>2, <2>5 DEF UpToRun
<1>10. ASSUME call["transitions"] # "ended"
       PROVE  Chain(LastSent, Append(outbox, episode)) /\ Follows(ChainEnd(LastSent, Append(outbox, episode)), NextStep')
    <2>1. Chain(LastSent, outbox) /\ Follows(ChainEnd(LastSent, outbox), episode[1]) /\ outbox \in Seq(Episodes)
        BY <1>5, <1>10 DEF PushedInOrder, LastPushed
    <2>2. Chain(LastSent, Append(outbox, episode)) /\ ChainEnd(LastSent, Append(outbox, episode)) = Last(episode)
        BY <1>7, <2>1, ChainAppend
    <2> QED BY <1>6, <1>8, <2>2 DEF Follows
<1>11. PushedInOrder'
    <2>2. call'["transitions"] # "ended" => Chain(LastSent', outbox') /\ Follows(ChainEnd(LastSent', outbox'), NextStep')
        BY <1>1, <1>3, <1>10
    <2>3. (call["transitions"] # "ended" => Chain(LastSent, outbox) /\ Follows(LastPushed, NextStep))'
        BY <2>2 DEF LastPushed, Chain, ChainEnd, Follows, Last
    <2> QED BY <1>9, <2>3 DEF PushedInOrder
<1>12. EpisodeInOrder'
    BY <1>1, <1>4 DEF EpisodeInOrder
<1>13. ArrivedInOrder'
    BY <1>1, <1>2, <1>3 DEF ArrivedInOrder, UpToRun, Chain
<1>14. SentInOrder'
    BY <1>1, <1>2, <1>3 DEF SentInOrder, UpToRun, Chain
<1>15. StoredInOrder'
    BY <1>1 DEF StoredInOrder
<1> QED BY <1>11, <1>12, <1>13, <1>14, <1>15

\* The first episode of the outbox is sent.
LEMMA GetOrder ==
    ASSUME LinkInv, NEW parts \in 1 .. MaxParts, GetMessage(parts)
    PROVE  OrderInv'
<1> USE DEF LinkInv, OrderInv
<1>1. /\ chunks["transitions"] = <<>> /\ outbox # <<>> /\ outbox' = Tail(outbox)
      /\ call["transitions"] = "up" /\ UNCHANGED <<stored, run, interactionStep, episode, actorPc, call, inbox>>
      /\ outbox \in Seq(Episodes)
    BY DEF GetMessage, actorVars, learnerVars, PushedInOrder
<1> DEFINE e == outbox[1]
<1>2. Sent = <<>> /\ LastSent = LastArrived
    BY <1>1 DEF Sent, LastSent, ChainEnd
<1>3. Chain(LastArrived, outbox) /\ Follows(ChainEnd(LastArrived, outbox), NextStep) /\ UpToRun(outbox)
    BY <1>1, <1>2 DEF PushedInOrder, LastPushed
<1>4. /\ Head(outbox) = e /\ e \in Episodes /\ Follows(LastArrived, e[1])
      /\ Tail(outbox) \in Seq(Episodes) /\ Chain(Last(e), Tail(outbox))
      /\ ChainEnd(Last(e), Tail(outbox)) = ChainEnd(LastArrived, outbox)
    BY <1>1, <1>3, ChainTail
<1> HIDE DEF e
<1>5. chunks'["transitions"] # <<>> /\ Body(chunks'["transitions"]) = e
    <2>1. e \in Seq(Numbered)
        <3>1. e \in Seq(Transitions)
            BY <1>4, EpisodeEnds
        <3>2. Transitions \subseteq Numbered
            BY DEF Transitions, Numbered
        <3> QED BY <3>1, <3>2, SeqMonotonic
    <2>2. /\ chunks' = [chunks EXCEPT !["transitions"] = SendBytesInChunks(e, parts)]
          /\ UNCHANGED <<call, received, inbox>>
        BY <1>4 DEF GetMessage
    <2>3. parts \in Nat \ {0}
        OBVIOUS
    <2> QED BY <1>1, <2>1, <2>2, <2>3, CutPayload, ThreeStreams
<1>6. Arrived' = Arrived /\ Sent' = <<e>>
    BY <1>1, <1>5 DEF Arrived, Sent, Bodies, Body
<1>7. LastStored' = LastStored /\ LastArrived' = LastArrived
    BY <1>1, <1>6 DEF LastStored, LastArrived, ChainEnd, Last
<1>8. <<e>> \in Seq(Episodes) /\ Chain(LastArrived, <<e>>) /\ ChainEnd(LastArrived, <<e>>) = Last(e)
    BY <1>4, ChainSmall
<1>9. LastSent' = Last(e)
    BY <1>6, <1>7, <1>8 DEF LastSent, ChainEnd, Last
<1>10. Last(e)[1] <= run /\ \A i \in 1 .. Len(Tail(outbox)) : Last(Tail(outbox)[i])[1] <= run
    <2>1. /\ Len(outbox) \in Nat \ {0} /\ Len(Tail(outbox)) = Len(outbox) - 1
          /\ \A i \in 1 .. Len(outbox) - 1 : Tail(outbox)[i] = outbox[i + 1] /\ i + 1 \in 1 .. Len(outbox)
        BY <1>1, HeadTailProperties
    <2>2. \A i \in 1 .. Len(outbox) : Last(outbox[i])[1] <= run
        BY <1>3 DEF UpToRun
    <2> QED BY <2>1, <2>2 DEF e
<1>11. ArrivedInOrder'
    BY <1>1, <1>6, <1>7 DEF ArrivedInOrder, UpToRun, Chain
<1>12. SentInOrder'
    <2>1. UpToRun(Sent)'
        BY <1>1, <1>6, <1>10 DEF UpToRun
    <2>2. Chain(LastArrived', Sent')
        BY <1>6, <1>7, <1>8
    <2> QED BY <1>6, <1>8, <2>1, <2>2 DEF SentInOrder, Chain
<1>13. PushedInOrder'
    <2>1. UpToRun(outbox)'
        BY <1>1, <1>10 DEF UpToRun
    <2>2. NextStep' = NextStep
        BY <1>1 DEF NextStep
    <2>3. Chain(LastSent', outbox') /\ ChainEnd(LastSent', outbox') = ChainEnd(LastArrived, outbox)
        BY <1>1, <1>4, <1>9
    <2>4. LastPushed' = ChainEnd(LastArrived, outbox)
        BY <2>3 DEF LastPushed, ChainEnd, Last
    <2> QED BY <1>1, <1>3, <1>4, <2>1, <2>2, <2>3, <2>4 DEF PushedInOrder, Chain
<1>14. EpisodeInOrder'
    BY <1>1 DEF EpisodeInOrder
<1>15. StoredInOrder'
    BY <1>1 DEF StoredInOrder
<1> QED BY <1>11, <1>12, <1>13, <1>14, <1>15

\* The episode sent arrives with its last chunk.
LEMMA ReceiveOrder ==
    ASSUME LinkInv, LearnerReceives, ~EndCall("transitions")
    PROVE  OrderInv'
<1> USE DEF LinkInv, OrderInv
<1> DEFINE q == chunks["transitions"]
           queue == inbox["transitions"]
           e == Body(q)
<1>1. /\ q # <<>> /\ ReceiveBytes("transitions", Head(q)) /\ chunks' = [chunks EXCEPT !["transitions"] = Tail(@)]
      /\ UNCHANGED <<stored, outbox, run, interactionStep, episode, actorPc, call>>
    BY DEF LearnerReceives, actorVars, learnerVars
<1>2. /\ Len(q) = 1 =>
            /\ chunks'["transitions"] = <<>>
            /\ \E bytes \in Seq(Chunk) : inbox'["transitions"] = Append(queue, bytes) /\ Body(bytes) = e
      /\ Len(q) # 1 =>
            /\ chunks'["transitions"] # <<>> /\ Body(chunks'["transitions"]) = e
            /\ inbox' = inbox
    BY <1>1, ReceiveChunk, ThreeStreams
<1>3. queue \in Seq(Seq(Chunk)) /\ Sent = <<e>>
    BY <1>1, ThreeStreams DEF StreamTypes, Sent
<1> HIDE DEF q, e, queue
<1>4. CASE Len(q) # 1
    <2>1. Arrived' = Arrived /\ Sent' = Sent
        BY <1>2, <1>3, <1>4 DEF Arrived, Sent, Bodies, Body
    <2> QED BY <1>1, <2>1, OrderKept
<1>5. CASE Len(q) = 1
    <2>1. /\ <<e>> \in Seq(Episodes) /\ Chain(LastArrived, <<e>>) /\ UpToRun(<<e>>)
          /\ Arrived \in Seq(Episodes) /\ Chain(LastStored, Arrived) /\ UpToRun(Arrived)
        BY <1>3 DEF SentInOrder, ArrivedInOrder
    <2>2. e \in Episodes
        <3>1. <<e>>[1] = e /\ Len(<<e>>) = 1
            OBVIOUS
        <3> QED BY <2>1, <3>1, ElementOfSeq
    <2>3. /\ Follows(LastArrived, e[1]) /\ LastSent = Last(e)
        BY <1>3, <2>1, <2>2, ChainSmall DEF LastSent
    <2>4. PICK bytes \in Seq(Chunk) : inbox'["transitions"] = Append(queue, bytes) /\ Body(bytes) = e
        BY <1>2, <1>5
    <2>5. Arrived' = Append(Arrived, e)
        <3>1. Bodies(Append(queue, bytes)) = Append(Bodies(queue), e)
            BY <1>3, <2>4, BodiesOfQueue
        <3> QED BY <2>4, <3>1 DEF Arrived, Bodies, Body, queue
    <2>6. Sent' = <<>>
        BY <1>2, <1>5 DEF Sent
    <2>7. /\ Append(Arrived, e) \in Seq(Episodes) /\ Chain(LastStored, Append(Arrived, e))
          /\ ChainEnd(LastStored, Append(Arrived, e)) = Last(e)
        BY <2>1, <2>2, <2>3, ChainAppend DEF LastArrived
    <2>8. LastStored' = LastStored
        BY <1>1 DEF LastStored, Last
    <2>9. LastArrived' = Last(e)
        <3>1. LastArrived' = ChainEnd(LastStored', Arrived')
            BY DEF LastArrived, ChainEnd, Last
        <3> QED BY <2>5, <2>7, <2>8, <3>1
    <2>10. LastSent' = LastSent
        <3>1. LastSent' = ChainEnd(LastArrived', Sent')
            BY DEF LastSent, ChainEnd, Last
        <3> QED BY <2>3, <2>6, <2>9, <3>1, ChainSmall
    <2>11. ArrivedInOrder'
        <3>1. \A i \in 1 .. Len(Append(Arrived, e)) : Last(Append(Arrived, e)[i])[1] <= run
            <4>1. /\ Len(Append(Arrived, e)) = Len(Arrived) + 1 /\ Len(Arrived) \in Nat
                  /\ Append(Arrived, e)[Len(Arrived) + 1] = e
                  /\ \A i \in 1 .. Len(Arrived) : Append(Arrived, e)[i] = Arrived[i]
                BY <2>1, <2>2
            <4>2. \A i \in 1 .. Len(Arrived) + 1 : i \in 1 .. Len(Arrived) \/ i = Len(Arrived) + 1
                BY <4>1
            <4>3. Last(e)[1] <= run /\ \A i \in 1 .. Len(Arrived) : Last(Arrived[i])[1] <= run
                <5>1. <<e>>[1] = e /\ 1 \in 1 .. Len(<<e>>)
                    OBVIOUS
                <5> QED BY <2>1, <5>1 DEF UpToRun
            <4> QED BY <4>1, <4>2, <4>3
        <3>2. UpToRun(Arrived)'
            BY <1>1, <2>5, <3>1 DEF UpToRun
        <3>3. Chain(LastStored', Arrived')
            BY <2>5, <2>7, <2>8
        <3> QED BY <1>1, <2>5, <2>7, <2>8, <3>2, <3>3 DEF ArrivedInOrder, Chain
    <2>12. SentInOrder'
        BY <2>6, ChainSmall DEF SentInOrder, UpToRun, Chain
    <2>13. PushedInOrder'
        <3>1. LastPushed' = LastPushed /\ NextStep' = NextStep
            BY <1>1, <2>10 DEF LastPushed, NextStep, ChainEnd, Last
        <3> QED BY <1>1, <2>10, <3>1 DEF PushedInOrder, UpToRun, Chain
    <2>14. EpisodeInOrder'
        BY <1>1 DEF EpisodeInOrder
    <2>15. StoredInOrder'
        BY <1>1 DEF StoredInOrder
    <2> QED BY <2>11, <2>12, <2>13, <2>14, <2>15
<1> QED BY <1>4, <1>5

\* The first episode that arrived is stored.
LEMMA StoreOrder ==
    ASSUME LinkInv, ProcessTransitions
    PROVE  OrderInv'
<1> USE DEF LinkInv, OrderInv
<1> DEFINE queue == inbox["transitions"]
           e == Arrived[1]
<1>1. UNCHANGED <<outbox, run, interactionStep, episode, actorPc, call, chunks>>
    BY DEF ProcessTransitions, actorVars
<1>2. queue \in Seq(Seq(Chunk)) /\ Sent' = Sent
    BY <1>1, ThreeStreams DEF StreamTypes, Sent, Body
<1>3. CASE queue = <<>>
    <2>1. UNCHANGED <<stored, inbox>>
        BY <1>3 DEF ProcessTransitions
    <2> QED BY <1>1, <1>2, <2>1, OrderKept DEF Arrived, Bodies, Body
<1>4. CASE queue # <<>>
    <2>1. inbox'["transitions"] = Tail(queue) /\ stored' = stored \o Decoded(Head(queue))
        BY <1>4, ThreeStreams DEF ProcessTransitions, StreamTypes
    <2>2. Arrived # <<>> /\ e = Body(queue[1]) /\ Bodies(Tail(queue)) = Tail(Arrived)
        BY <1>2, <1>4, BodiesOfQueue DEF Arrived
    <2>3. Decoded(Head(queue)) = e
        <3>1. Head(queue) = queue[1] /\ 1 \in 1 .. Len(queue)
            BY <1>2, <1>4
        <3>2. queue[1] = Payload(queue[1])
            BY <3>1, ThreeStreams DEF PayloadsWhole
        <3> QED BY <2>2, <3>1, <3>2, DecodedBody
    <2>4. Arrived' = Tail(Arrived)
        BY <2>1, <2>2 DEF Arrived, Bodies, Body
    <2>5. /\ stored \in Seq(Transitions) /\ Arrived \in Seq(Episodes) /\ Chain(LastStored, Arrived)
          /\ UpToRun(Arrived)
        BY DEF ArrivedInOrder
    <2>6. /\ e \in Episodes /\ Follows(LastStored, e[1])
          /\ Tail(Arrived) \in Seq(Episodes) /\ Chain(Last(e), Tail(Arrived))
          /\ ChainEnd(Last(e), Tail(Arrived)) = LastArrived
        BY <2>2, <2>5, ChainTail DEF LastArrived
    <2> HIDE DEF e, queue
    <2>7. stored' \in Seq(Transitions) /\ StoredInOrder' /\ LastStored' = Last(e)
        BY <2>1, <2>3, <2>5, <2>6, StoreEpisode
    <2>8. LastArrived' = LastArrived
        <3>1. LastArrived' = ChainEnd(LastStored', Arrived')
            BY DEF LastArrived, ChainEnd, Last
        <3> QED BY <2>4, <2>6, <2>7, <3>1
    <2>9. LastSent' = LastSent /\ LastPushed' = LastPushed /\ NextStep' = NextStep
        BY <1>1, <1>2, <2>8 DEF LastSent, LastPushed, NextStep, ChainEnd, Last
    <2>10. ArrivedInOrder'
        <3>1. Last(e)[1] <= run /\ \A i \in 1 .. Len(Tail(Arrived)) : Last(Tail(Arrived)[i])[1] <= run
            <4>1. /\ Len(Arrived) \in Nat \ {0} /\ Len(Tail(Arrived)) = Len(Arrived) - 1
                  /\ \A i \in 1 .. Len(Arrived) - 1 : Tail(Arrived)[i] = Arrived[i + 1] /\ i + 1 \in 1 .. Len(Arrived)
                BY <2>2, <2>5, HeadTailProperties
            <4>2. \A i \in 1 .. Len(Arrived) : Last(Arrived[i])[1] <= run
                BY <2>5 DEF UpToRun
            <4> QED BY <4>1, <4>2 DEF e
        <3>2. UpToRun(Arrived)'
            BY <1>1, <2>4, <3>1 DEF UpToRun
        <3>3. Chain(LastStored', Arrived')
            BY <2>4, <2>6, <2>7
        <3> QED BY <1>1, <2>4, <2>6, <2>7, <3>1, <3>2, <3>3 DEF ArrivedInOrder, Chain
    <2>11. SentInOrder'
        BY <1>1, <1>2, <2>8 DEF SentInOrder, UpToRun, Chain
    <2>12. PushedInOrder'
        BY <1>1, <2>9 DEF PushedInOrder, UpToRun, Chain
    <2>13. EpisodeInOrder'
        BY <1>1 DEF EpisodeInOrder
    <2> QED BY <2>7, <2>10, <2>11, <2>12, <2>13
<1> QED BY <1>3, <1>4

\* A new run of the actor begins after all that has arrived.
LEMMA AgainOrder ==
    ASSUME LinkInv, ActorStartedAgain
    PROVE  OrderInv'
<1> USE DEF LinkInv, OrderInv
<1>1. /\ actorPc' = "ready" /\ run' = run + 1 /\ interactionStep' = 0 /\ episode' = <<>> /\ outbox' = <<>>
      /\ call'["transitions"] = "none" /\ chunks'["transitions"] = <<>> /\ UNCHANGED stored
      /\ inbox'["transitions"] = inbox["transitions"]
    BY ThreeStreams DEF ActorStartedAgain, OnStreams, StreamTypes, learnerVars
<1>2. Arrived' = Arrived /\ Sent' = <<>>
    BY <1>1 DEF Arrived, Sent, Bodies, Body
<1>3. LastStored' = LastStored /\ LastArrived' = LastArrived
    BY <1>1, <1>2 DEF LastStored, LastArrived, ChainEnd, Last
<1>4. LastSent' = LastArrived /\ LastPushed' = LastArrived /\ NextStep' = <<run + 1, 1>>
    BY <1>1, <1>2, <1>3 DEF LastSent, LastPushed, NextStep, ChainEnd
<1>5. /\ run \in Nat /\ stored \in Seq(Transitions) /\ Arrived \in Seq(Episodes)
      /\ \A i \in 1 .. Len(Arrived) : Last(Arrived[i])[1] <= run
      /\ LastStored[1] <= run
    BY DEF RunTypes, ArrivedInOrder, UpToRun
<1>6. LastStored[1] \in Nat
    <2>1. CASE stored = <<>>
        BY <2>1 DEF LastStored
    <2>2. CASE stored # <<>>
        <3>1. stored[Len(stored)] \in Transitions
            BY <1>5, <2>2
        <3> QED BY <2>2, <3>1 DEF LastStored, Last, Transitions
    <2> QED BY <2>1, <2>2
<1>7. \A i \in 1 .. Len(Arrived) : Last(Arrived[i])[1] \in Nat
    BY <1>5, EpisodeEnds
<1>8. LastArrived[1] \in Nat /\ LastArrived[1] <= run
    <2>1. CASE Arrived = <<>>
        BY <1>5, <1>6, <2>1 DEF LastArrived, ChainEnd
    <2>2. CASE Arrived # <<>>
        <3>1. Len(Arrived) \in 1 .. Len(Arrived) /\ Last(Arrived) = Arrived[Len(Arrived)]
            BY <1>5, <2>2 DEF Last
        <3>2. LastArrived = Last(Last(Arrived))
            BY <2>2 DEF LastArrived, ChainEnd
        <3> QED BY <1>5, <1>7, <3>1, <3>2
    <2> QED BY <2>1, <2>2
<1>9. Follows(LastArrived, <<run + 1, 1>>)
    BY <1>5, <1>8 DEF Follows
<1>10. ArrivedInOrder'
    <2>1. LastStored'[1] <= run'
        BY <1>1, <1>3, <1>5, <1>6
    <2>2. UpToRun(Arrived)'
        BY <1>1, <1>2, <1>5, <1>7 DEF UpToRun
    <2> QED BY <1>1, <1>2, <1>3, <2>1, <2>2 DEF ArrivedInOrder, Chain
<1>11. SentInOrder'
    BY <1>2, ChainSmall DEF SentInOrder, UpToRun, Chain
<1>12. PushedInOrder'
    BY <1>1, <1>4, <1>9, ChainSmall DEF PushedInOrder, UpToRun, Chain, Follows
<1>13. EpisodeInOrder'
    BY <1>1 DEF EpisodeInOrder
<1>14. StoredInOrder'
    BY <1>1 DEF StoredInOrder
<1> QED BY <1>10, <1>11, <1>12, <1>13, <1>14

\* Every step keeps the order of the transitions.
LEMMA OrderStepInv == LinkInv /\ LinkNext => OrderInv'
<1> SUFFICES ASSUME LinkInv, LinkNext PROVE OrderInv'
    OBVIOUS
<1>0. OrderInv /\ StreamTypes /\ PayloadsWhole
    BY DEF LinkInv
<1> DEFINE Same == UNCHANGED <<stored, outbox, run, interactionStep, episode>>
           Still == /\ inbox'["transitions"] = inbox["transitions"]
                    /\ chunks'["transitions"] = chunks["transitions"]
<1>1. Still => Arrived' = Arrived /\ Sent' = Sent
    BY DEF Arrived, Sent, Bodies, Body
<1>2. ASSUME Same, Still, call' = call, actorPc' \in {actorPc, "act", "join", "left"} PROVE OrderInv'
    BY <1>0, <1>1, <1>2, OrderKept
<1>3. actorPc = "ready" => call["transitions"] = "none"
    BY <1>0 DEF OrderInv, EpisodeInOrder
<1>4. ASSUME NEW s \in Streams, EndCall(s), UNCHANGED inbox, Same, actorPc' = actorPc,
             call[s] \in {"called", "up"}
      PROVE  OrderInv'
    <2>1. CASE s = "transitions"
        <3>1. Sent' = <<>> /\ call'["transitions"] = "ended" /\ Arrived' = Arrived
            BY <1>0, <1>4, <2>1, CallOver DEF Sent, Arrived, Bodies, Body
        <3>2. actorPc # "ready"
            BY <1>3, <1>4, <2>1
        <3> QED BY <1>0, <1>4, <3>1, <3>2, OrderCut
    <2>2. CASE s # "transitions"
        <3>1. Still /\ call'["transitions"] = call["transitions"]
            BY <1>0, <1>4, <2>2, CallOver, ThreeStreams
        <3> QED BY <1>0, <1>1, <1>4, <3>1, OrderKept
    <2> QED BY <2>1, <2>2
<1>5. CASE Act
    <2>1. CASE EstablishConnection
        <3>1. Same /\ Still /\ actorPc = "ready" /\ actorPc' = "act"
            BY <2>1 DEF EstablishConnection, learnerVars
        <3> QED BY <1>0, <1>1, <1>3, <3>1, OrderKept
    <2>2. CASE ConnectionFails \/ CloseQueues \/ JoinStreams
        <3>1. Same /\ Still /\ call' = call /\ actorPc' \in {"join", "left"}
            BY <2>2 DEF ConnectionFails, CloseQueues, JoinStreams, streamVars, learnerVars
        <3> QED BY <1>2, <3>1
    <2> QED BY <1>5, <2>1, <2>2, ActOrder, PushOrder DEF Act
<1>6. ASSUME NEW s \in Streams, StartCall(s) PROVE OrderInv'
    <2>1. Same /\ Still /\ actorPc' = actorPc /\ call[s] = "called" /\ call' = [call EXCEPT ![s] = "up"]
        BY <1>6 DEF StartCall, actorVars, learnerVars
    <2>2. CASE s = "transitions"
        <3>1. actorPc # "ready" /\ call["transitions"] # "ended"
            BY <1>3, <2>1, <2>2
        <3> QED BY <1>0, <1>1, <2>1, <3>1, OrderKept
    <2>3. CASE s # "transitions"
        <3>1. call'["transitions"] = call["transitions"]
            BY <1>0, <2>1, <2>3, ThreeStreams DEF StreamTypes
        <3> QED BY <1>0, <1>1, <2>1, <3>1, OrderKept
    <2> QED BY <2>2, <2>3
<1>7. ASSUME NEW s \in Streams, CallFails(s) PROVE OrderInv'
    <2>1. /\ EndCall(s) /\ UNCHANGED inbox /\ Same /\ actorPc' = actorPc /\ call[s] \in {"called", "up"}
        BY <1>7 DEF CallFails, actorVars, learnerVars
    <2> QED BY <1>4, <2>1
<1>8. CASE \E s \in Senders : SenderStep(s)
    <2>1. PICK s \in Senders : SenderStep(s)
        BY <1>8
    <2>2. s \in Streams
        BY ThreeStreams
    <2>3. CASE StreamEnds(s)
        <3>1. /\ EndCall(s) /\ UNCHANGED inbox /\ Same /\ actorPc' = actorPc /\ call[s] = "up"
            BY <2>3 DEF StreamEnds, actorVars, learnerVars
        <3> QED BY <1>4, <2>2, <3>1
    <2>4. CASE LearnerReceives
        <3>1. CASE EndCall("transitions")
            <4>1. /\ UNCHANGED inbox /\ Same /\ actorPc' = actorPc /\ call["transitions"] = "up"
                <5>1. call' # call
                    BY <1>0, <2>4, <3>1, ThreeStreams DEF EndCall, LearnerReceives, StreamTypes
                <5> QED BY <2>4, <5>1 DEF LearnerReceives, actorVars, learnerVars
            <4> QED BY <1>4, <3>1, <4>1, ThreeStreams
        <3> QED BY <2>4, <3>1, ReceiveOrder
    <2> QED BY <1>6, <1>7, <2>1, <2>2, <2>3, <2>4, GetOrder DEF SenderStep
<1>9. CASE ParametersStep
    <2>1. CASE ParametersEnd
        <3>1. EndCall("parameters") /\ UNCHANGED inbox /\ Same /\ actorPc' = actorPc /\ call["parameters"] = "up"
            BY <2>1 DEF ParametersEnd, actorVars, learnerVars
        <3> QED BY <1>4, <3>1, ThreeStreams
    <2>2. CASE ActorReceives
        <3>1. Same /\ actorPc' = actorPc /\ call["parameters"] = "up" /\ chunks["parameters"] # <<>>
            BY <2>2 DEF ActorReceives, learnerVars
        <3>2. CASE EndCall("parameters") /\ UNCHANGED inbox
            BY <1>4, <3>1, <3>2, ThreeStreams
        <3>3. CASE ~(EndCall("parameters") /\ UNCHANGED inbox)
            <4>1. /\ ReceiveBytes("parameters", Head(chunks["parameters"])) /\ UNCHANGED call
                  /\ chunks' = [chunks EXCEPT !["parameters"] = Tail(@)]
                BY <2>2, <3>3 DEF ActorReceives
            <4>2. Still
                BY <1>0, <3>1, <4>1, ReceiveChunk, ThreeStreams
            <4> QED BY <1>2, <3>1, <4>1, <4>2
        <3> QED BY <3>2, <3>3
    <2>3. CASE \E parts \in 1 .. MaxParts : StreamParameters(parts)
        <3>1. /\ Same /\ actorPc' = actorPc /\ call' = call /\ inbox' = inbox
              /\ chunks'["transitions"] = chunks["transitions"]
            BY <1>0, <2>3, ThreeStreams DEF StreamParameters, actorVars, StreamTypes
        <3> QED BY <1>2, <3>1
    <2> QED BY <1>6, <1>7, <1>9, <2>1, <2>2, <2>3, ThreeStreams DEF ParametersStep
<1>10. CASE Learn
    <2>1. CASE (\E push \in BOOLEAN : Train(push)) \/ LearnerLeaves
        <3>1. Same /\ Still /\ call' = call /\ actorPc' = actorPc
            BY <2>1 DEF Train, LearnerLeaves, actorVars, streamVars
        <3> QED BY <1>2, <3>1
    <2> QED BY <1>10, <2>1, StoreOrder DEF Learn
<1>11. CASE OrphanEnds \/ LearnerWaits \/ StopServer \/ LinkRests
    <2>1. Same /\ Still /\ call' = call /\ actorPc' = actorPc
        BY <1>11 DEF OrphanEnds, LearnerWaits, StopServer, LinkRests, linkVars, actorVars, streamVars, learnerVars
    <2> QED BY <1>2, <2>1
<1>12. CASE LinkFault
    <2>1. CASE ActorSignalled \/ LearnerSignalled
        <3>1. Same /\ Still /\ call' = call /\ actorPc' = actorPc
            BY <2>1 DEF ActorSignalled, LearnerSignalled, actorVars, streamVars, learnerVars
        <3> QED BY <1>2, <3>1
    <2> QED BY <1>12, <2>1, AgainOrder DEF LinkFault
<1> QED BY <1>5, <1>8, <1>9, <1>10, <1>11, <1>12 DEF LinkNext

(***************************************************************************)
(* The versions of the parameters.                                         *)
(***************************************************************************)

\* Where no parameters move.
LEMMA VersionsKept ==
    ASSUME VersionsGrow, UNCHANGED <<loaded, newest, version, parametersQueue>>,
           inbox'["parameters"] = inbox["parameters"],
           chunks'["parameters"] = chunks["parameters"] \/ chunks'["parameters"] = <<>>
    PROVE  VersionsGrow'
BY DEF VersionsGrow, Version, Body, Last

\* Parameters received are the newest; the queued ones are newer still.
LEMMA ReceiveVersion ==
    ASSUME LinkInv, ActorReceives, ~(EndCall("parameters") /\ UNCHANGED inbox)
    PROVE  VersionsGrow'
<1> USE DEF LinkInv
<1> DEFINE q == chunks["parameters"]
           queue == inbox["parameters"]
<1>1. /\ q # <<>> /\ ReceiveBytes("parameters", Head(q)) /\ chunks' = [chunks EXCEPT !["parameters"] = Tail(@)]
      /\ newest' = IF Len(q) = 1 THEN Head(Head(q).body)[2] ELSE newest
      /\ UNCHANGED <<loaded, version, parametersQueue, call>>
    BY DEF ActorReceives, learnerVars
<1>2. /\ Len(q) = 1 =>
            /\ chunks'["parameters"] = <<>>
            /\ \E bytes \in Seq(Chunk) : inbox'["parameters"] = Append(queue, bytes) /\ Body(bytes) = Body(q)
      /\ Len(q) # 1 =>
            /\ chunks'["parameters"] # <<>> /\ Body(chunks'["parameters"]) = Body(q)
            /\ inbox' = inbox
    BY <1>1, ReceiveChunk, ThreeStreams
<1>3. queue \in Seq(Seq(Chunk)) /\ q \in Seq(Chunk)
    BY ThreeStreams DEF StreamTypes
<1>4. CASE Len(q) # 1
    BY <1>1, <1>2, <1>4 DEF VersionsGrow, Version, Body, Last
<1>5. CASE Len(q) = 1
    <2>1. newest' = Version(q)
        BY <1>1, <1>3, <1>5 DEF Version, Body
    <2>2. PICK bytes \in Seq(Chunk) : inbox'["parameters"] = Append(queue, bytes) /\ Body(bytes) = Body(q)
        BY <1>2, <1>5
    <2>3. /\ loaded \in Nat /\ newest \in Nat /\ loaded <= newest /\ version \in 1 .. MaxVersions
          /\ parametersQueue \in Seq(1 .. MaxVersions)
          /\ Body(q) \in Parameters /\ newest <= Version(q) /\ Version(q) <= version
          /\ \A i \in 1 .. Len(parametersQueue) : Version(q) <= parametersQueue[i] /\ parametersQueue[i] <= version
          /\ \A i \in 1 .. Len(queue) : Body(queue[i]) \in Parameters
        BY <1>1 DEF VersionsGrow
    <2>4. Version(q) \in Nat
        <3>1. Head(Body(q)) \in Numbered
            BY <2>3 DEF Parameters
        <3> QED BY <3>1 DEF Version, Numbered
    <2>5. /\ Append(queue, bytes) # <<>> /\ Last(Append(queue, bytes)) = bytes
          /\ \A i \in 1 .. Len(Append(queue, bytes)) : Body(Append(queue, bytes)[i]) \in Parameters
        <3>1. /\ Len(Append(queue, bytes)) = Len(queue) + 1 /\ Len(queue) \in Nat
              /\ Append(queue, bytes)[Len(queue) + 1] = bytes
              /\ \A i \in 1 .. Len(queue) : Append(queue, bytes)[i] = queue[i]
            BY <1>3
        <3>2. \A i \in 1 .. Len(queue) + 1 : i \in 1 .. Len(queue) \/ i = Len(queue) + 1
            BY <3>1
        <3> QED BY <2>2, <2>3, <3>1, <3>2 DEF Last
    <2>6. Version(bytes) = Version(q)
        BY <2>2 DEF Version
    <2>7. inbox'["parameters"] # <<>> /\ Version(Last(inbox'["parameters"])) = newest'
        BY <2>1, <2>2, <2>5, <2>6
    <2>8. \A i \in 1 .. Len(inbox'["parameters"]) : Body(inbox'["parameters"][i]) \in Parameters
        BY <2>2, <2>5
    <2>9. loaded <= newest' /\ newest' <= version /\ newest' \in Nat
        BY <2>1, <2>3, <2>4
    <2>10. \A i \in 1 .. Len(parametersQueue) : newest' <= parametersQueue[i] /\ parametersQueue[i] <= version
        BY <2>1, <2>3
    <2>11. chunks'["parameters"] = <<>>
        BY <1>2, <1>5
    <2> QED BY <1>1, <2>3, <2>7, <2>8, <2>9, <2>10, <2>11 DEF VersionsGrow, Version, Body, Last
<1> QED BY <1>4, <1>5

\* What is loaded at the end of an episode is the newest.
LEMMA LoadVersion ==
    ASSUME LinkInv, UpdatePolicyParameters
    PROVE  loaded' = newest
<1> USE DEF LinkInv
<1> DEFINE queue == inbox["parameters"]
<1>1. CASE queue = <<>>
    BY <1>1 DEF UpdatePolicyParameters, VersionsGrow
<1>2. CASE queue # <<>>
    <2>1. queue \in Seq(Seq(Chunk))
        BY ThreeStreams DEF StreamTypes
    <2>2. Len(queue) \in 1 .. Len(queue) /\ Last(queue) = queue[Len(queue)]
        BY <1>2, <2>1 DEF Last
    <2>3. Last(queue) = Payload(Last(queue))
        BY <2>2, ThreeStreams DEF PayloadsWhole
    <2>4. Decoded(Last(queue)) = Body(Last(queue))
        BY <2>3, DecodedBody
    <2>5. loaded' = Version(Last(queue))
        BY <1>2, <2>4 DEF UpdatePolicyParameters, Version
    <2> QED BY <1>2, <2>5 DEF VersionsGrow
<1> QED BY <1>1, <1>2

\* The last of the parameters queued is sent, and the queue emptied.
LEMMA StreamVersion ==
    ASSUME LinkInv, NEW parts \in 1 .. MaxParts, StreamParameters(parts)
    PROVE  VersionsGrow'
<1> USE DEF LinkInv
<1> DEFINE v == Last(parametersQueue)
           body == << <<0, v>> >>
<1>1. /\ chunks["parameters"] = <<>> /\ parametersQueue # <<>> /\ parametersQueue' = <<>>
      /\ chunks' = [chunks EXCEPT !["parameters"] = SendBytesInChunks(body, parts)]
      /\ UNCHANGED <<loaded, newest, version, call, received, inbox>>
    BY DEF StreamParameters, actorVars
<1>2. /\ v \in Nat /\ newest <= v /\ v <= version
    <2>1. parametersQueue \in Seq(1 .. MaxVersions)
        BY DEF VersionsGrow
    <2>2. Len(parametersQueue) \in 1 .. Len(parametersQueue) /\ v = parametersQueue[Len(parametersQueue)]
        BY <1>1, <2>1 DEF Last
    <2>3. v \in Nat
        BY <2>1, <2>2
    <2> QED BY <2>2, <2>3 DEF VersionsGrow
<1> HIDE DEF v
<1>3. body \in Seq(Numbered) /\ body # <<>> /\ Head(body)[2] = v
    BY <1>2 DEF Numbered
<1>4. parts \in Nat \ {0}
    OBVIOUS
<1>5. Body(chunks'["parameters"]) = body
    BY <1>1, <1>3, <1>4, CutPayload, ThreeStreams
<1>6. Version(chunks'["parameters"]) = v /\ Body(chunks'["parameters"]) \in Parameters
    BY <1>3, <1>5 DEF Version, Parameters
<1> QED BY <1>1, <1>2, <1>6 DEF VersionsGrow, Version, Body, Last

\* Every step leaves the parameters newer the less far they have come.
LEMMA VersionsStepInv == LinkInv /\ LinkNext => VersionsGrow'
<1> SUFFICES ASSUME LinkInv, LinkNext PROVE VersionsGrow'
    OBVIOUS
<1>0. VersionsGrow /\ StreamTypes /\ PayloadsWhole
    BY DEF LinkInv
<1> DEFINE Same == UNCHANGED <<loaded, newest, version, parametersQueue>>
           Still == /\ inbox'["parameters"] = inbox["parameters"]
                    /\ chunks'["parameters"] = chunks["parameters"] \/ chunks'["parameters"] = <<>>
<1>1. Same /\ Still => VersionsGrow'
    BY <1>0, VersionsKept
<1>2. ASSUME NEW s \in Streams, EndCall(s), UNCHANGED inbox, Same PROVE VersionsGrow'
    BY <1>0, <1>1, <1>2, CallOver, ThreeStreams
<1>3. CASE Act
    <2>1. CASE \E ends \in BOOLEAN : ActStep(ends)
        <3>1. UNCHANGED <<newest, version, parametersQueue, chunks>>
            BY <2>1 DEF ActStep, learnerVars
        <3>2. CASE UpdatePolicyParameters
            <4>1. inbox'["parameters"] = <<>>
                BY <1>0, <3>2, ThreeStreams DEF UpdatePolicyParameters, StreamTypes
            <4>2. loaded' = newest
                BY <3>2, LoadVersion
            <4> QED BY <1>0, <3>1, <4>1, <4>2 DEF VersionsGrow, Version, Body, Last
        <3>3. CASE ~UpdatePolicyParameters
            BY <1>1, <2>1, <3>1, <3>3 DEF ActStep
        <3> QED BY <3>2, <3>3
    <2>2. CASE EstablishConnection \/ ConnectionFails \/ PushEpisode \/ CloseQueues \/ JoinStreams
        <3>1. Same /\ Still
            BY <2>2 DEF EstablishConnection, ConnectionFails, PushEpisode, CloseQueues, JoinStreams, streamVars, learnerVars
        <3> QED BY <1>1, <3>1
    <2> QED BY <1>3, <2>1, <2>2 DEF Act
<1>4. ASSUME NEW s \in Streams, StartCall(s) \/ CallFails(s) PROVE VersionsGrow'
    <2>1. Same /\ UNCHANGED inbox /\ (chunks' = chunks \/ EndCall(s))
        BY <1>4 DEF StartCall, CallFails, actorVars, learnerVars
    <2> QED BY <1>1, <1>2, <2>1
<1>5. CASE \E s \in Senders : SenderStep(s)
    <2>1. PICK s \in Senders : SenderStep(s)
        BY <1>5
    <2>2. CASE StreamEnds(s)
        <3>1. Same /\ UNCHANGED inbox /\ EndCall(s)
            BY <2>2 DEF StreamEnds, actorVars, learnerVars
        <3> QED BY <1>2, <3>1, ThreeStreams
    <2>3. CASE LearnerReceives
        <3>1. Same
            BY <2>3 DEF LearnerReceives, actorVars, learnerVars
        <3>2. CASE EndCall("transitions") /\ UNCHANGED inbox
            BY <1>2, <3>1, <3>2, ThreeStreams
        <3>3. CASE ~(EndCall("transitions") /\ UNCHANGED inbox)
            <4>1. Still
                BY <1>0, <2>3, <3>3, ReceiveChunk, ThreeStreams DEF LearnerReceives
            <4> QED BY <1>1, <3>1, <4>1
        <3> QED BY <3>2, <3>3
    <2>4. CASE \E parts \in 1 .. MaxParts : GetMessage(parts)
        <3>1. Same /\ Still
            BY <1>0, <2>4, ThreeStreams DEF GetMessage, actorVars, learnerVars, StreamTypes
        <3> QED BY <1>1, <3>1
    <2> QED BY <1>4, <2>1, <2>2, <2>3, <2>4, ThreeStreams DEF SenderStep
<1>6. CASE ParametersStep
    <2>1. CASE ParametersEnd
        <3>1. Same /\ UNCHANGED inbox /\ EndCall("parameters")
            BY <2>1 DEF ParametersEnd, actorVars, learnerVars
        <3> QED BY <1>2, <3>1, ThreeStreams
    <2>2. CASE ActorReceives
        <3>1. CASE EndCall("parameters") /\ UNCHANGED inbox
            <4>1. UNCHANGED newest \/ newest' = IF Len(chunks["parameters"]) = 1 THEN Head(Head(chunks["parameters"]).body)[2] ELSE newest
                BY <2>2 DEF ActorReceives
            <4>2. UNCHANGED call => FALSE
                BY <1>0, <2>2, <3>1, ThreeStreams DEF EndCall, ActorReceives, StreamTypes
            <4>3. Same
                BY <2>2, <4>2 DEF ActorReceives, learnerVars
            <4> QED BY <1>2, <3>1, <4>3, ThreeStreams
        <3> QED BY <2>2, <3>1, ReceiveVersion
    <2> QED BY <1>4, <1>6, <2>1, <2>2, StreamVersion, ThreeStreams DEF ParametersStep
<1>7. CASE OrphanEnds
    <2>1. /\ UNCHANGED <<loaded, newest, version, inbox, chunks>>
          /\ parametersQueue' = parametersQueue \/ parametersQueue' = <<>>
        BY <1>7 DEF OrphanEnds, actorVars, streamVars
    <2>2. CASE parametersQueue' = <<>>
        <3>1. <<>> \in Seq(1 .. MaxVersions) /\ Len(<<>>) = 0
            BY EmptySeq
        <3> QED BY <1>0, <2>1, <2>2, <3>1 DEF VersionsGrow, Version, Body, Last
    <2> QED BY <1>1, <2>1, <2>2
<1>8. CASE Learn
    <2>1. CASE ProcessTransitions
        <3>1. Same /\ Still
            BY <1>0, <2>1, ThreeStreams DEF ProcessTransitions, actorVars, StreamTypes
        <3> QED BY <1>1, <3>1
    <2>2. CASE Train(TRUE)
        <3> DEFINE n == Len(parametersQueue)
                   longer == Append(parametersQueue, version + 1)
        <3>1. /\ version < MaxVersions /\ version' = version + 1 /\ parametersQueue' = longer
              /\ UNCHANGED <<loaded, newest, inbox, chunks>>
            BY <2>2 DEF Train, actorVars, streamVars
        <3>2. /\ loaded \in Nat /\ newest \in Nat /\ version \in 1 .. MaxVersions /\ newest <= version
              /\ parametersQueue \in Seq(1 .. MaxVersions)
              /\ chunks["parameters"] # <<>> =>
                    /\ Body(chunks["parameters"]) \in Parameters
                    /\ Version(chunks["parameters"]) <= version
              /\ \A i \in 1 .. n : newest <= parametersQueue[i] /\ parametersQueue[i] <= version
            BY <1>0 DEF VersionsGrow
        <3>7. ASSUME NEW i \in 1 .. n, chunks["parameters"] # <<>>
              PROVE  Version(chunks["parameters"]) <= parametersQueue[i]
            BY <1>0, <3>7 DEF VersionsGrow
        <3>3. chunks["parameters"] # <<>> => Version(chunks["parameters"]) \in Nat
            BY <3>2 DEF Version, Parameters, Numbered
        <3>4. /\ version + 1 \in 1 .. MaxVersions /\ longer \in Seq(1 .. MaxVersions) /\ Len(longer) = n + 1
              /\ n \in Nat /\ longer[n + 1] = version + 1
              /\ \A i \in 1 .. n : longer[i] = parametersQueue[i] /\ parametersQueue[i] \in Nat
            BY <3>1, <3>2
        <3> HIDE DEF longer, n
        <3>5. ASSUME NEW i \in 1 .. n + 1
              PROVE  /\ newest <= longer[i] /\ longer[i] <= version + 1
                     /\ chunks["parameters"] # <<>> => Version(chunks["parameters"]) <= longer[i]
            <4>1. CASE i = n + 1
                BY <3>2, <3>3, <3>4, <4>1
            <4>2. CASE i # n + 1
                <5>1. i \in 1 .. n
                    BY <3>4, <4>2
                <5>2. longer[i] = parametersQueue[i] /\ parametersQueue[i] \in Nat
                    BY <3>4, <5>1
                <5>3. newest <= parametersQueue[i] /\ parametersQueue[i] <= version
                    BY <3>2, <5>1
                <5>4. chunks["parameters"] # <<>> => Version(chunks["parameters"]) <= parametersQueue[i]
                    BY <3>7, <5>1
                <5>5. parametersQueue[i] <= version + 1
                    BY <3>2, <5>2, <5>3
                <5> QED BY <5>2, <5>3, <5>4, <5>5
            <4> QED BY <4>1, <4>2
        <3>6. newest <= version + 1 /\ (chunks["parameters"] # <<>> => Version(chunks["parameters"]) <= version + 1)
            BY <3>2, <3>3
        <3> QED BY <1>0, <3>1, <3>4, <3>5, <3>6 DEF VersionsGrow, Version, Body, Last
    <2>3. CASE Train(FALSE) \/ LearnerLeaves
        <3>1. Same /\ Still
            BY <2>3 DEF Train, LearnerLeaves, actorVars, streamVars
        <3> QED BY <1>1, <3>1
    <2> QED BY <1>8, <2>1, <2>2, <2>3 DEF Learn
<1>9. CASE LearnerWaits \/ StopServer \/ LinkRests
    <2>1. Same /\ Still
        BY <1>9 DEF LearnerWaits, StopServer, LinkRests, linkVars, actorVars, streamVars, learnerVars
    <2> QED BY <1>1, <2>1
<1>10. CASE LinkFault
    <2>1. CASE ActorSignalled \/ LearnerSignalled
        <3>1. Same /\ Still
            BY <2>1 DEF ActorSignalled, LearnerSignalled, actorVars, streamVars, learnerVars
        <3> QED BY <1>1, <3>1
    <2>2. CASE ActorStartedAgain
        <3>1. /\ loaded' = 0 /\ newest' = 0 /\ UNCHANGED <<version, parametersQueue>>
              /\ inbox'["parameters"] = <<>> /\ chunks'["parameters"] = <<>>
            BY <1>0, <2>2, ThreeStreams DEF ActorStartedAgain, OnStreams, StreamTypes, learnerVars
        <3>2. /\ version \in 1 .. MaxVersions /\ parametersQueue \in Seq(1 .. MaxVersions)
              /\ \A i \in 1 .. Len(parametersQueue) : 0 <= parametersQueue[i] /\ parametersQueue[i] <= version
            BY <1>0 DEF VersionsGrow
        <3> QED BY <3>1, <3>2 DEF VersionsGrow, Version, Body, Last
    <2> QED BY <1>10, <2>1, <2>2 DEF LinkFault
<1> QED BY <1>3, <1>5, <1>6, <1>7, <1>8, <1>9, <1>10 DEF LinkNext

(***************************************************************************)
(* The pool of workers and the flags.                                      *)
(***************************************************************************)
Up == {s \in Streams : call[s] = "up"}

\* Each run of the actor leaves one handler behind at most, and no call finds a worker
\* when all are held.
PoolInv ==
    /\ orphans \in Nat /\ Busy <= MaxWorkers
    /\ orphans + (IF call["parameters"] = "ended" THEN 0 ELSE 1) <= run
    /\ actorPc = "ready" => \A s \in Streams : call[s] = "none"

Flags ==
    /\ threads \in BOOLEAN /\ actorShutdown \in BOOLEAN /\ closed \in BOOLEAN
    /\ learnerShutdown \in BOOLEAN /\ served \in BOOLEAN

\* The workers held are the orphans and the calls that are up, and those are finitely many.
LEMMA WorkersHeld ==
    /\ IsFiniteSet(Up) /\ Cardinality(Up) \in Nat /\ Busy = orphans + Cardinality(Up)
    /\ Up # {} => Cardinality(Up) >= 1
<1>1. IsFiniteSet(Streams)
    <2>1. IsFiniteSet({}) /\ {} \cup {"transitions"} \cup {"interactions"} \cup {"parameters"} = Streams
        BY FS_EmptySet DEF Streams, Senders
    <2> QED BY <2>1, FS_AddElement
<1>2. IsFiniteSet(Up) /\ Cardinality(Up) \in Nat
    BY <1>1, FS_Subset, FS_CardinalityType DEF Up
<1>3. Up # {} => Cardinality(Up) # 0
    BY <1>2, FS_EmptySet
<1> QED BY <1>2, <1>3 DEF Busy, Up

\* No more workers are held when none is taken.
LEMMA PoolKept ==
    ASSUME StreamTypes, PoolInv, run \in Nat, UNCHANGED <<run, actorPc>>,
           \/ UNCHANGED <<call, orphans>>
           \/ \E s \in Streams : EndCall(s) /\ call[s] \in {"called", "up"} /\ UNCHANGED orphans
           \/ /\ EndCall("parameters") /\ call["parameters"] = "up"
              /\ orphans' = orphans + 1 \/ orphans' = orphans
           \/ UNCHANGED call /\ orphans > 0 /\ orphans' = orphans - 1
    PROVE  PoolInv'
<1>1. orphans \in Nat /\ Busy <= MaxWorkers /\ Busy = orphans + Cardinality(Up) /\ Cardinality(Up) \in Nat
    BY WorkersHeld DEF PoolInv
<1>2. /\ orphans + (IF call["parameters"] = "ended" THEN 0 ELSE 1) <= run
      /\ actorPc = "ready" => \A s \in Streams : call[s] = "none"
    BY DEF PoolInv
<1>3. Busy' = orphans' + Cardinality(Up') /\ Cardinality(Up') \in Nat
    <2>1. (/\ IsFiniteSet(Up) /\ Cardinality(Up) \in Nat /\ Busy = orphans + Cardinality(Up)
           /\ Up # {} => Cardinality(Up) >= 1)'
        BY WorkersHeld, PTL
    <2> QED BY <2>1
<1>4. CASE UNCHANGED <<call, orphans>>
    <2>1. Up' = Up
        BY <1>4 DEF Up
    <2> QED BY <1>1, <1>2, <1>3, <1>4, <2>1 DEF PoolInv
<1>5. CASE UNCHANGED call /\ orphans > 0 /\ orphans' = orphans - 1
    <2>1. Up' = Up
        BY <1>5 DEF Up
    <2>2. orphans' \in Nat /\ Busy' <= MaxWorkers
        BY <1>1, <1>3, <1>5, <2>1
    <2>3. orphans' + (IF call'["parameters"] = "ended" THEN 0 ELSE 1) <= run'
        BY <1>1, <1>2, <1>5
    <2> QED BY <1>2, <1>5, <2>2, <2>3 DEF PoolInv
<1>6. ASSUME NEW s \in Streams, EndCall(s), call[s] \in {"called", "up"},
             \/ UNCHANGED orphans
             \/ s = "parameters" /\ call[s] = "up" /\ orphans' = orphans + 1
      PROVE  PoolInv'
    <2>1. /\ call'[s] = "ended" /\ \A t \in Streams \ {s} : call'[t] = call[t]
        BY <1>6 DEF EndCall, StreamTypes
    <2>2. Up' = Up \ {s}
        BY <2>1 DEF Up
    <2>3. Cardinality(Up') = IF call[s] = "up" THEN Cardinality(Up) - 1 ELSE Cardinality(Up)
        <3>1. s \in Up <=> call[s] = "up"
            BY DEF Up
        <3> QED BY <2>2, <3>1, WorkersHeld, FS_RemoveElement
    <2>4. orphans' \in Nat /\ Busy' <= MaxWorkers
        BY <1>1, <1>3, <1>6, <2>3
    <2>5. orphans' + (IF call'["parameters"] = "ended" THEN 0 ELSE 1) <= run'
        <3>1. CASE s = "parameters"
            BY <1>1, <1>2, <1>6, <2>1, <3>1
        <3>2. CASE s # "parameters"
            BY <1>1, <1>2, <1>6, <2>1, <3>2, ThreeStreams
        <3> QED BY <3>1, <3>2
    <2>6. actorPc' # "ready"
        BY <1>2, <1>6
    <2> QED BY <2>4, <2>5, <2>6 DEF PoolInv
<1> QED BY <1>4, <1>5, <1>6, ThreeStreams

\* Every step keeps the pool within its workers.
LEMMA PoolStepInv == RunTypes /\ StreamTypes /\ PoolInv /\ LinkNext => PoolInv'
<1> SUFFICES ASSUME RunTypes, StreamTypes, PoolInv, LinkNext PROVE PoolInv'
    OBVIOUS
<1>1. orphans \in Nat /\ Busy <= MaxWorkers /\ Busy = orphans + Cardinality(Up) /\ Cardinality(Up) \in Nat
    BY WorkersHeld DEF PoolInv
<1>2. /\ orphans + (IF call["parameters"] = "ended" THEN 0 ELSE 1) <= run
      /\ actorPc = "ready" => \A s \in Streams : call[s] = "none"
      /\ run \in Nat
    BY DEF PoolInv, RunTypes
<1>3. Busy' = orphans' + Cardinality(Up')
    <2>1. (/\ IsFiniteSet(Up) /\ Cardinality(Up) \in Nat /\ Busy = orphans + Cardinality(Up)
           /\ Up # {} => Cardinality(Up) >= 1)'
        BY WorkersHeld, PTL
    <2> QED BY <2>1
<1>4. ASSUME UNCHANGED <<run, actorPc, call, orphans>> PROVE PoolInv'
    BY <1>2, <1>4, PoolKept
<1>5. ASSUME UNCHANGED <<run, call, orphans>>, actorPc' # "ready" PROVE PoolInv'
    <2>1. Up' = Up
        BY <1>5 DEF Up
    <2> QED BY <1>1, <1>2, <1>3, <1>5, <2>1 DEF PoolInv
<1>6. ASSUME NEW s \in Streams, StartCall(s) PROVE PoolInv'
    <2>1. /\ call[s] = "called" /\ Busy < MaxWorkers /\ call' = [call EXCEPT ![s] = "up"]
          /\ UNCHANGED <<run, actorPc, orphans>>
        BY <1>6 DEF StartCall, actorVars
    <2>2. call'[s] = "up" /\ \A t \in Streams \ {s} : call'[t] = call[t]
        BY <2>1 DEF StreamTypes
    <2>3. Up' = Up \cup {s} /\ s \notin Up
        BY <2>1, <2>2 DEF Up
    <2>4. Cardinality(Up') = Cardinality(Up) + 1
        BY <2>3, WorkersHeld, FS_AddElement
    <2>5. Busy' <= MaxWorkers
        BY <1>1, <1>3, <2>1, <2>4
    <2>6. orphans' + (IF call'["parameters"] = "ended" THEN 0 ELSE 1) <= run'
        <3>1. call'["parameters"] = "ended" <=> call["parameters"] = "ended"
            BY <2>1, <2>2, ThreeStreams
        <3> QED BY <1>2, <2>1, <3>1
    <2>7. actorPc' # "ready"
        BY <1>2, <2>1
    <2> QED BY <1>1, <2>1, <2>5, <2>6, <2>7 DEF PoolInv
<1>7. ASSUME NEW s \in Streams, CallFails(s) \/ StreamEnds(s) \/ (s = "parameters" /\ ParametersEnd)
      PROVE  PoolInv'
    <2>1. EndCall(s) /\ call[s] \in {"called", "up"} /\ UNCHANGED <<run, actorPc, orphans>>
        BY <1>7 DEF CallFails, StreamEnds, ParametersEnd, actorVars
    <2> QED BY <1>2, <2>1, PoolKept
<1>8. CASE Act
    <2>1. CASE EstablishConnection
        <3>1. /\ \A s \in Streams : call'[s] = "called" /\ call[s] = "none"
              /\ UNCHANGED <<run, orphans>> /\ actorPc' = "act"
            BY <1>2, <2>1 DEF EstablishConnection, OnStreams
        <3>2. Up' = Up
            BY <3>1 DEF Up
        <3> QED BY <1>1, <1>2, <1>3, <3>1, <3>2, ThreeStreams DEF PoolInv
    <2>2. CASE ~EstablishConnection
        <3>1. UNCHANGED <<run, call, orphans>> /\ actorPc' # "ready"
            BY <1>8, <2>2 DEF Act, ConnectionFails, ActStep, PushEpisode, CloseQueues, JoinStreams, streamVars
        <3> QED BY <1>5, <3>1
    <2> QED BY <2>1, <2>2
<1>9. CASE \E s \in Senders : SenderStep(s)
    <2>1. PICK s \in Senders : SenderStep(s)
        BY <1>9
    <2>2. CASE LearnerReceives
        <3>1. call["transitions"] = "up" /\ UNCHANGED <<run, actorPc, orphans>> /\ (UNCHANGED call \/ EndCall("transitions"))
            BY <2>2 DEF LearnerReceives, actorVars
        <3> QED BY <1>2, <3>1, PoolKept, ThreeStreams
    <2>3. CASE \E parts \in 1 .. MaxParts : GetMessage(parts)
        BY <1>4, <2>3 DEF GetMessage, actorVars
    <2> QED BY <1>6, <1>7, <2>1, <2>2, <2>3, ThreeStreams DEF SenderStep
<1>10. CASE ParametersStep
    <2>1. CASE ActorReceives
        <3>1. /\ call["parameters"] = "up" /\ UNCHANGED <<run, actorPc>>
              /\ \/ UNCHANGED <<call, orphans>>
                 \/ EndCall("parameters") /\ (orphans' = orphans + 1 \/ orphans' = orphans)
            <4>1. /\ call["parameters"] = "up" /\ UNCHANGED <<run, actorPc>>
                BY <2>1 DEF ActorReceives
            <4>2. UNCHANGED <<call, orphans>> \/ (/\ EndCall("parameters")
                      /\ orphans' = orphans + (IF Len(chunks["parameters"]) = 1 THEN 1 ELSE 0))
                BY <2>1 DEF ActorReceives
            <4> QED BY <1>1, <4>1, <4>2
        <3> QED BY <1>2, <3>1, PoolKept
    <2>2. CASE \E parts \in 1 .. MaxParts : StreamParameters(parts)
        BY <1>4, <2>2 DEF StreamParameters, actorVars
    <2> QED BY <1>6, <1>7, <1>10, <2>1, <2>2, ThreeStreams DEF ParametersStep
<1>11. CASE OrphanEnds
    BY <1>2, <1>11, PoolKept DEF OrphanEnds, actorVars, streamVars
<1>12. CASE Learn \/ LearnerWaits \/ StopServer \/ LinkRests
    <2>1. UNCHANGED <<run, actorPc, call, orphans>>
        BY <1>12 DEF Learn, ProcessTransitions, Train, LearnerLeaves, LearnerWaits, StopServer, LinkRests,
                     linkVars, actorVars, streamVars
    <2> QED BY <1>4, <2>1
<1>13. CASE LinkFault
    <2>1. CASE ActorSignalled \/ LearnerSignalled
        BY <1>4, <2>1 DEF ActorSignalled, LearnerSignalled, actorVars, streamVars
    <2>2. CASE ActorStartedAgain
        <3>1. /\ \A s \in Streams : call'[s] = "none"
              /\ run' = run + 1
              /\ orphans' = orphans \/ (call["parameters"] = "up" /\ orphans' = orphans + 1)
            BY <1>1, <2>2 DEF ActorStartedAgain, OnStreams
        <3>2. Cardinality(Up') = 0
            <4>1. Up' = {}
                BY <3>1 DEF Up
            <4> QED BY <4>1, FS_EmptySet
        <3>3. call["parameters"] = "up" => Cardinality(Up) >= 1
            BY WorkersHeld, ThreeStreams DEF Up
        <3>4. orphans' \in Nat /\ Busy' <= MaxWorkers
            BY <1>1, <1>3, <3>1, <3>2, <3>3
        <3>5. orphans' + 1 <= run'
            BY <1>1, <1>2, <3>1
        <3> QED BY <3>1, <3>4, <3>5, ThreeStreams DEF PoolInv
    <2> QED BY <1>13, <2>1, <2>2 DEF LinkFault
<1> QED BY <1>8, <1>9, <1>10, <1>11, <1>12, <1>13 DEF LinkNext

\* A flag is set, reset or left alone.
LEMMA FlagsStepInv == Flags /\ [LinkNext]_linkVars => Flags'
<1> SUFFICES ASSUME Flags, [LinkNext]_linkVars PROVE Flags'
    OBVIOUS
<1> DEFINE Same == UNCHANGED <<threads, actorShutdown, closed, learnerShutdown, served>>
<1>1. CASE Act
    <2>1. CASE CloseQueues
        <3>1. UNCHANGED <<threads, actorShutdown, learnerShutdown, served>> /\ closed' = TRUE
            BY <2>1 DEF CloseQueues, learnerVars
        <3>2. closed' \in BOOLEAN
            BY <3>1
        <3> QED BY <3>1, <3>2 DEF Flags
    <2>2. CASE ~CloseQueues
        <3>1. Same
            BY <1>1, <2>2 DEF Act, EstablishConnection, ConnectionFails, ActStep, PushEpisode, JoinStreams, learnerVars
        <3> QED BY <3>1 DEF Flags
    <2> QED BY <2>1, <2>2
<1>2. CASE (\E s \in Senders : SenderStep(s)) \/ ParametersStep \/ OrphanEnds
    <2>1. Same
        BY <1>2 DEF SenderStep, ParametersStep, OrphanEnds, StartCall, CallFails, StreamEnds, LearnerReceives, GetMessage,
                    ParametersEnd, ActorReceives, StreamParameters, actorVars, learnerVars
    <2> QED BY <2>1 DEF Flags
<1>3. CASE Learn \/ LearnerWaits \/ LinkRests \/ UNCHANGED linkVars
    <2>1. Same
        BY <1>3 DEF Learn, ProcessTransitions, Train, LearnerLeaves, LearnerWaits, LinkRests, linkVars, actorVars, learnerVars
    <2> QED BY <2>1 DEF Flags
<1>4. CASE StopServer
    <2>1. UNCHANGED <<threads, actorShutdown, closed, learnerShutdown>> /\ served' = FALSE
        BY <1>4 DEF StopServer, actorVars
    <2>2. served' \in BOOLEAN
        BY <2>1
    <2> QED BY <2>1, <2>2 DEF Flags
<1>5. CASE LinkFault
    <2>1. CASE ActorSignalled
        <3>1. UNCHANGED <<threads, closed, learnerShutdown, served>> /\ actorShutdown' = TRUE
            BY <2>1 DEF ActorSignalled, learnerVars
        <3>2. actorShutdown' \in BOOLEAN
            BY <3>1
        <3> QED BY <3>1, <3>2 DEF Flags
    <2>2. CASE LearnerSignalled
        <3>1. UNCHANGED <<threads, closed, actorShutdown, served>> /\ learnerShutdown' = TRUE
            BY <2>2 DEF LearnerSignalled, actorVars
        <3>2. learnerShutdown' \in BOOLEAN
            BY <3>1
        <3> QED BY <3>1, <3>2 DEF Flags
    <2>3. CASE ActorStartedAgain
        <3>1. UNCHANGED <<threads, learnerShutdown, served>> /\ actorShutdown' = FALSE /\ closed' = FALSE
            BY <2>3 DEF ActorStartedAgain, learnerVars
        <3>2. actorShutdown' \in BOOLEAN /\ closed' \in BOOLEAN
            BY <3>1
        <3> QED BY <3>1, <3>2 DEF Flags
    <2> QED BY <1>5, <2>1, <2>2, <2>3 DEF LinkFault
<1> QED BY <1>1, <1>2, <1>3, <1>4, <1>5 DEF LinkNext

(***************************************************************************)
(* The theorems.                                                           *)
(***************************************************************************)

\* At first nothing is on its way but the parameters the learner begins with.
LEMMA LinkInitInv == LinkInit => LinkInv
<1> SUFFICES ASSUME LinkInit PROVE LinkInv
    OBVIOUS
<1>1. RunTypes
    BY DEF LinkInit, RunTypes
<1>2. StreamTypes
    BY DEF LinkInit, StreamTypes, OnStreams
<1>3. \A s \in Streams : chunks[s] = <<>> /\ received[s] = <<>> /\ inbox[s] = <<>>
    BY DEF LinkInit, OnStreams
<1>4. PayloadsWhole
    <2>1. \A s \in Streams : \A i \in 1 .. Len(inbox[s]) : FALSE
        BY <1>3, Len(<<>>) = 0
    <2> QED BY <1>3, <2>1 DEF PayloadsWhole
<1>5. Arrived = <<>> /\ Sent = <<>> /\ LastStored = <<0, 0>>
    <2>1. Arrived = <<>>
        BY <1>3, ThreeStreams DEF Arrived, Bodies
    <2> QED BY <1>3, <2>1, ThreeStreams DEF Sent, LastStored, LinkInit
<1>6. LastArrived = <<0, 0>> /\ LastSent = <<0, 0>> /\ LastPushed = <<0, 0>> /\ NextStep = <<1, 1>>
    BY <1>5 DEF LastArrived, LastSent, LastPushed, ChainEnd, NextStep, LinkInit
<1>7. ArrivedInOrder /\ SentInOrder
    BY <1>5, ChainSmall DEF ArrivedInOrder, SentInOrder, UpToRun, Chain, LinkInit
<1>8. PushedInOrder
    BY <1>6, ChainSmall DEF PushedInOrder, UpToRun, Chain, Follows, LinkInit
<1>9. EpisodeInOrder
    BY ThreeStreams DEF EpisodeInOrder, LinkInit, OnStreams
<1>10. StoredInOrder
    BY DEF StoredInOrder, LinkInit
<1>11. VersionsGrow
    BY <1>3, ThreeStreams DEF VersionsGrow, LinkInit
<1> QED BY <1>1, <1>2, <1>4, <1>7, <1>8, <1>9, <1>10, <1>11 DEF LinkInv, OrderInv

\* Every step, and every stutter, keeps the invariant.
LEMMA LinkStepInv == LinkInv /\ [LinkNext]_linkVars => LinkInv'
<1> SUFFICES ASSUME LinkInv, [LinkNext]_linkVars PROVE LinkInv'
    OBVIOUS
<1>1. CASE LinkNext
    BY <1>1, RunTypesInv, StreamsInv, OrderStepInv, VersionsStepInv DEF LinkInv
<1>2. CASE UNCHANGED linkVars
    <2>1. RunTypes' /\ StreamTypes' /\ PayloadsWhole'
        BY <1>2 DEF LinkInv, RunTypes, StreamTypes, PayloadsWhole, Payload, Body,
                    linkVars, actorVars, streamVars, learnerVars
    <2>2. OrderInv'
        <3>1. Arrived' = Arrived /\ Sent' = Sent
            BY <1>2 DEF Arrived, Sent, Bodies, Body, linkVars, streamVars
        <3> QED BY <1>2, <3>1, OrderKept DEF LinkInv, linkVars, actorVars, streamVars, learnerVars
    <2>3. VersionsGrow'
        BY <1>2, VersionsKept DEF LinkInv, linkVars, actorVars, streamVars, learnerVars
    <2> QED BY <2>1, <2>2, <2>3 DEF LinkInv
<1> QED BY <1>1, <1>2

\* What each run, the streams and the pool of the server keep.
LinkPoolInv == LinkInv /\ PoolInv /\ Flags

\* Nothing is called or held yet.
LEMMA LinkPoolInitInv == LinkInit => LinkPoolInv
<1> SUFFICES ASSUME LinkInit PROVE LinkPoolInv
    OBVIOUS
<1> USE DEF LinkPoolInv
<1>1. Flags
    <2>1. /\ threads \in BOOLEAN /\ actorShutdown = FALSE /\ closed = FALSE
          /\ learnerShutdown = FALSE /\ served = TRUE
        BY DEF LinkInit
    <2>2. actorShutdown \in BOOLEAN /\ closed \in BOOLEAN /\ learnerShutdown \in BOOLEAN /\ served \in BOOLEAN
        BY <2>1
    <2> QED BY <2>1, <2>2 DEF Flags
<1>2. Cardinality(Up) = 0
    <2>1. Up = {}
        BY DEF Up, LinkInit, OnStreams
    <2> QED BY <2>1, FS_EmptySet
<1>3. PoolInv
    <2>1. orphans = 0 /\ run = 1 /\ \A s \in Streams : call[s] = "none"
        BY DEF LinkInit, OnStreams
    <2>2. Busy <= MaxWorkers
        BY <1>2, <2>1, WorkersHeld
    <2> QED BY <2>1, <2>2, ThreeStreams DEF PoolInv
<1> QED BY <1>1, <1>3, LinkInitInv

\* Every step keeps it.
LEMMA LinkPoolStepInv == LinkPoolInv /\ [LinkNext]_linkVars => LinkPoolInv'
<1> SUFFICES ASSUME LinkPoolInv, [LinkNext]_linkVars PROVE LinkPoolInv'
    OBVIOUS
<1> USE DEF LinkPoolInv
<1>1. LinkInv' /\ Flags'
    BY LinkStepInv, FlagsStepInv
<1>2. CASE LinkNext
    BY <1>1, <1>2, PoolStepInv DEF LinkInv
<1>3. CASE UNCHANGED linkVars
    <2>1. StreamTypes /\ run \in Nat /\ UNCHANGED <<run, actorPc, call, orphans>>
        BY <1>3 DEF LinkInv, RunTypes, linkVars, actorVars, streamVars
    <2> QED BY <1>1, <2>1, PoolKept
<1> QED BY <1>2, <1>3

\* It holds all the types.
LEMMA LinkTypes == LinkPoolInv => LinkTypeOK
<1> SUFFICES ASSUME LinkPoolInv PROVE LinkTypeOK
    OBVIOUS
<1> USE DEF LinkPoolInv
<1> USE DEF LinkInv, OrderInv
<1>1. /\ actorPc \in {"ready", "act", "push", "join", "left"}
      /\ learnerPc \in {"transitions", "train", "left"}
      /\ run \in 1 .. MaxLinkFaults + 1 /\ interactionStep \in 0 .. OnlineSteps
    BY DEF RunTypes
<1>2. episode \in Seq(Transitions) /\ stored \in Seq(Transitions)
    BY DEF EpisodeInOrder, ArrivedInOrder
<1>3. outbox \in Seq(Seq(Transitions))
    <2>1. outbox \in Seq(Episodes) /\ Episodes \subseteq Seq(Transitions)
        BY DEF PushedInOrder, Episodes
    <2> QED BY <2>1, SeqMonotonic
<1>4. call \in [Streams -> {"none", "called", "up", "ended"}]
    BY DEF StreamTypes
<1>5. /\ loaded \in 0 .. MaxVersions /\ newest \in 0 .. MaxVersions
      /\ version \in 1 .. MaxVersions /\ parametersQueue \in Seq(1 .. MaxVersions)
    BY DEF VersionsGrow
<1>6. orphans \in 0 .. MaxLinkFaults + 1 /\ Busy <= MaxWorkers
    BY <1>1 DEF PoolInv
<1> QED BY <1>1, <1>2, <1>3, <1>4, <1>5, <1>6 DEF LinkTypeOK, Flags

\* The variables of actor, learner and streams keep their types, and no more workers of the
\* pool are held than there are.
THEOREM LinkTypeCorrect == LinkSpec => []LinkTypeOK
BY LinkPoolInitInv, LinkPoolStepInv, LinkTypes, PTL DEF LinkSpec

\* receive_bytes_in_chunks, process_transitions: the learner stores the steps of each run
\* from the first one on, each once and in order, whatever is cut, lost or started again.
THEOREM AlwaysStoredInOrder == LinkSpec => []StoredInOrder
<1>1. LinkInv => StoredInOrder
    BY DEF LinkInv, OrderInv
<1> QED BY <1>1, LinkInitInv, LinkStepInv, PTL DEF LinkSpec

\* update_policy_parameters: at the end of an episode the policy is as new as what has
\* reached the actor, and within a run it never becomes older.
THEOREM AlwaysLoadsNewest == LinkSpec => LoadsNewest
<1> DEFINE Loading == /\ actorPc = "act" /\ actorPc' = "push" => loaded' = newest
                      /\ run' = run => loaded' >= loaded
<1>1. LinkInv /\ [LinkNext]_linkVars => Loading \/ UNCHANGED linkVars
    <2> SUFFICES ASSUME LinkInv, [LinkNext]_linkVars PROVE Loading \/ UNCHANGED linkVars
        OBVIOUS
    <2>1. loaded \in Nat /\ newest \in Nat /\ loaded <= newest /\ run \in Nat
        BY DEF LinkInv, VersionsGrow, RunTypes
    <2>2. CASE \E ends \in BOOLEAN : ActStep(ends)
        <3>1. CASE UpdatePolicyParameters
            <4>1. loaded' = newest
                BY <3>1, LoadVersion
            <4> QED BY <2>1, <4>1
        <3>2. CASE ~UpdatePolicyParameters
            BY <2>1, <2>2, <3>2 DEF ActStep
        <3> QED BY <3>1, <3>2
    <2>3. CASE LinkFault
        <3>1. CASE ActorSignalled \/ LearnerSignalled
            BY <2>1, <3>1 DEF ActorSignalled, LearnerSignalled, actorVars
        <3>2. CASE ActorStartedAgain
            <4>1. run' # run /\ actorPc' = "ready"
                BY <2>1, <3>2 DEF ActorStartedAgain
            <4> QED BY <4>1
        <3> QED BY <2>3, <3>1, <3>2 DEF LinkFault
    <2>4. CASE ~(\E ends \in BOOLEAN : ActStep(ends)) /\ ~LinkFault /\ LinkNext
        <3>1. loaded' = loaded /\ ~(actorPc = "act" /\ actorPc' = "push")
            <4>1. CASE Act
                BY <2>4, <4>1 DEF Act, EstablishConnection, ConnectionFails, PushEpisode, CloseQueues, JoinStreams
            <4>2. CASE \E s \in Senders : SenderStep(s)
                BY <4>2 DEF SenderStep, StartCall, CallFails, StreamEnds, LearnerReceives, GetMessage, actorVars
            <4>3. CASE ParametersStep \/ OrphanEnds
                BY <4>3 DEF ParametersStep, StartCall, CallFails, ParametersEnd, ActorReceives, StreamParameters, OrphanEnds, actorVars
            <4>4. CASE Learn \/ LearnerWaits \/ StopServer \/ LinkRests
                BY <4>4 DEF Learn, ProcessTransitions, Train, LearnerLeaves, LearnerWaits, StopServer, LinkRests, linkVars, actorVars
            <4> QED BY <2>4, <4>1, <4>2, <4>3, <4>4 DEF LinkNext
        <3> QED BY <2>1, <3>1
    <2> QED BY <2>2, <2>3, <2>4
<1> HIDE DEF Loading
<1>2. LinkInv /\ [LinkNext]_linkVars => [Loading]_linkVars
    BY <1>1
<1> QED BY <1>2, LinkInitInv, LinkStepInv, PTL DEF LinkSpec, LoadsNewest, Loading
==============================================================================
