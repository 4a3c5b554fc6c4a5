------------------------------ MODULE LcmProofs ------------------------------
(***************************************************************************)
(* What LcmChannel promises, for any number of threads on either side and  *)
(* any types, messages and coding functions of which CodecRight holds:     *)
(* that the race for the fingerprint costs a message of the type only as   *)
(* RefusalExplained says, that it hands over one of another type only when *)
(* both sides met it, and that no other step of the channel does either.   *)
(***************************************************************************)
EXTENDS LcmChannel, FiniteSetTheorems, SequenceTheorems, TLAPS

Place == {"idle", "get_hash", "compute", "flag_set", "hash_set", "read_hash", "hashed", "done"}
InCall == Place \ {"idle", "done"}
Programs == {"sender", "receiver"}
Known == {ZeroHash} \cup {HashOf[lang][type] : lang \in Languages,
                                               type \in {chan.type, chan.want}}

Typed ==
  /\ chan \in Channels
  /\ computed \in [Programs -> BOOLEAN]
  /\ fingerprint \in [Programs -> Known]
  /\ at \in [Threads -> Place]
  /\ hash \in [Threads -> Known]
  /\ msg \in [Threads -> Messages[chan.type] \cup {Nothing}]
  /\ early \subseteq Threads

\* The threads of a program in the middle of get_hash: those that read the
\* variable have seen the flag, and the flag is right, or there is a thread that
\* has set it and not the fingerprint.
Race ==
  \A t \in Threads :
    /\ at[t] \in {"compute", "flag_set", "hash_set", "read_hash"} => Lang(t) = "C"
    /\ at[t] = "hash_set" => fingerprint[Statics(t)] = HashOf["C"][TypeOf(t)]
    /\ at[t] \in {"flag_set", "read_hash"} => computed[Statics(t)]
    /\ fingerprint[Statics(t)] \in {ZeroHash, HashOf["C"][TypeOf(t)]}
    /\ \/ ~computed[Statics(t)]
       \/ fingerprint[Statics(t)] = HashOf["C"][TypeOf(t)]
       \/ \E u \in Threads : Statics(u) = Statics(t) /\ at[u] = "flag_set"

\* What get_hash gave a thread is the fingerprint, or zero to a thread that met
\* another; the handler meets one only in its own program.
Hashed ==
  /\ \A t \in Threads : at[t] = "hashed" =>
       \/ hash[t] = HashOf[Lang(t)][TypeOf(t)]
       \/ hash[t] = ZeroHash /\ t \in early
  /\ Dispatcher \in early => chan.type = chan.want \/ chan.users > 0

-----------------------------------------------------------------------------
(* The race for the fingerprint.                                           *)

\* Threads that share static variables use one type.
LEMMA SameType ==
  ASSUME chan \in Channels, NEW t \in Threads, NEW u \in Threads, Statics(t) = Statics(u)
  PROVE  TypeOf(t) = TypeOf(u)
BY ChannelAssumption DEF Statics, TypeOf

\* Who is who.
LEMMA Threading ==
  ASSUME chan \in Channels
  PROVE  /\ Dispatcher \in Threads /\ Publishers \subseteq Threads /\ Users \subseteq Threads
         /\ Publishers \cap Receivers = {} /\ Dispatcher \in Receivers
         /\ Users = {} \/ chan.users > 0
BY ChannelAssumption DEF Dispatcher, Threads, Publishers, Users, Receivers

\* A thread is of one of two programs.
LEMMA StaticsIs == \A t : Statics(t) \in Programs
BY DEF Statics, Programs

\* The languages and fingerprints of a thread's type.
LEMMA ThreadFacts ==
  ASSUME chan \in Channels, NEW t \in Threads
  PROVE  /\ Lang(t) \in Languages
         /\ HashOf["C"][TypeOf(t)] \in Known /\ HashOf["C++"][TypeOf(t)] \in Known
         /\ HashOf[Lang(t)][TypeOf(t)] \in Known
<1>1. Lang(t) \in Languages /\ TypeOf(t) \in {chan.type, chan.want}
  BY ChannelAssumption DEF Lang, TypeOf
<1>2. \A lang \in Languages, type \in {chan.type, chan.want} : HashOf[lang][type] \in Known
  BY DEF Known
<1> QED
  BY <1>1, <1>2 DEF Languages

\* The channel is chosen once (CodecRight is a fact about it).
LEMMA ChanStays == [Next]_vars => chan' = chan
BY DEF Next, get_hash, test_computed, store_hash, store_computed, read_hash, getHash, publish,
       use, encode_publish_free, subscribe, unsubscribe, Lose, handle, handler_stub, destroy,
       others, locals, rest, vars

\* The state of the threads outside get_hash: a step that moves one of them,
\* from idle or hashed to another place outside.
Outside(t) ==
  /\ at[t] \in {"idle", "hashed"}
  /\ \E p \in {"idle", "get_hash", "done"} : at' = [at EXCEPT ![t] = p]

\* Steps outside get_hash do not disturb the race.
LEMMA RaceStays ==
  ASSUME Typed, Race, Hashed, UNCHANGED <<chan, computed, fingerprint, hash, early>>,
         UNCHANGED at \/ \E t \in Threads : Outside(t)
  PROVE  Race' /\ Hashed'
<1>1. CASE UNCHANGED at
  BY <1>1 DEF Race, Hashed, Lang, Statics, TypeOf, Threads, Receivers, Users
<1>2. ASSUME NEW t \in Threads, Outside(t)
      PROVE  Race' /\ Hashed'
  <2>1. PICK p \in {"idle", "get_hash", "done"} : at' = [at EXCEPT ![t] = p]
    BY <1>2 DEF Outside
  <2>2. \A u \in Threads : at'[u] = IF u = t THEN p ELSE at[u]
    BY <2>1 DEF Typed
  <2>3. at[t] # "flag_set"
    BY <1>2 DEF Outside
  <2>4. Race'
    BY <2>2, <2>3 DEF Race, Lang, Statics, TypeOf, Threads, Receivers, Users
  <2>5. Hashed'
    BY <2>2 DEF Hashed, Lang, TypeOf, Threads, Receivers, Users
  <2> QED
    BY <2>4, <2>5
<1> QED
  BY <1>1, <1>2

\* Each step of get_hash, in either order of the two stores.
LEMMA GetHashKeeps ==
  ASSUME Typed, Race, Hashed, NEW t \in Threads, get_hash(t)
  PROVE  Race' /\ Hashed'
<1> DEFINE p == Statics(t)
           right == HashOf["C"][TypeOf(t)]
<1> USE DEF Typed
<1>1. /\ p \in Programs /\ chan' = chan
      /\ \A u \in Threads : Statics(u)' = Statics(u) /\ TypeOf(u)' = TypeOf(u)
                            /\ Lang(u)' = Lang(u) /\ Statics(u) \in Programs
      /\ \A u \in Threads : Statics(u) = p => HashOf["C"][TypeOf(u)] = right
      /\ Threads' = Threads
  <2>1. chan' = chan
    BY DEF get_hash, test_computed, store_hash, store_computed, read_hash, getHash, others
  <2> QED
    BY <2>1, StaticsIs, SameType DEF Statics, TypeOf, Lang, Threads, Receivers, Users
<1> HIDE DEF p, right
<1>2. CASE test_computed(t)
  <2>1. PICK q \in {"read_hash", "compute"} :
          /\ at' = [at EXCEPT ![t] = q]
          /\ q = "read_hash" => computed[p]
    BY <1>2 DEF test_computed, p
  <2>2. at[t] = "get_hash" /\ Lang(t) = "C" /\ UNCHANGED <<computed, fingerprint, hash, early>>
    BY <1>2 DEF test_computed
  <2>3. \A u \in Threads : at'[u] = IF u = t THEN q ELSE at[u]
    BY <2>1
  <2>4. Race'
    BY <1>1, <2>1, <2>2, <2>3 DEF Race, p
  <2>5. Hashed'
    BY <1>1, <2>2, <2>3 DEF Hashed
  <2> QED
    BY <2>4, <2>5
<1>3. CASE store_hash(t)
  <2>1. PICK q \in {"hash_set", "read_hash"} :
          /\ at' = [at EXCEPT ![t] = q]
          /\ q = "read_hash" => at[t] = "flag_set"
    BY <1>3 DEF store_hash
  <2>2. /\ at[t] \in {"compute", "flag_set"}
        /\ fingerprint' = [fingerprint EXCEPT ![p] = right]
        /\ UNCHANGED <<computed, hash, early>>
    BY <1>3 DEF store_hash, p, right
  <2>3. /\ \A u \in Threads : at'[u] = IF u = t THEN q ELSE at[u]
        /\ \A r \in Programs : fingerprint'[r] = IF r = p THEN right ELSE fingerprint[r]
    BY <2>1, <2>2
  <2>4. ASSUME NEW u \in Threads
        PROVE  fingerprint'[Statics(u)] = IF Statics(u) = p THEN HashOf["C"][TypeOf(u)]
                                          ELSE fingerprint[Statics(u)]
    BY <1>1, <2>3
  <2>5. Lang(t) = "C" /\ (q = "read_hash" => computed[p])
    BY <2>1, <2>2 DEF Race, p
  <2>6. \A u \in Threads : Statics(u) # p /\ at[u] = "flag_set" => at'[u] = "flag_set"
    BY <2>3 DEF p
  <2>7. Race'
    BY <1>1, <2>1, <2>2, <2>3, <2>4, <2>5, <2>6 DEF Race, p
  <2>8. Hashed'
    BY <1>1, <2>2, <2>3 DEF Hashed
  <2> QED
    BY <2>7, <2>8
<1>4. CASE store_computed(t)
  <2>1. PICK q \in {"flag_set", "read_hash"} :
          /\ at' = [at EXCEPT ![t] = q]
          /\ q = "read_hash" => at[t] = "hash_set"
    BY <1>4 DEF store_computed
  <2>2. /\ at[t] \in {"compute", "hash_set"}
        /\ computed' = [computed EXCEPT ![p] = TRUE]
        /\ UNCHANGED <<fingerprint, hash, early>>
    BY <1>4 DEF store_computed, p
  <2>3. /\ \A u \in Threads : at'[u] = IF u = t THEN q ELSE at[u]
        /\ \A r \in Programs : computed'[r] = IF r = p THEN TRUE ELSE computed[r]
    BY <2>1, <2>2
  <2>4. /\ Lang(t) = "C" /\ q \in {"flag_set", "read_hash"}
        /\ q = "read_hash" => fingerprint[p] = right
    BY <2>1, <2>2 DEF Race, p, right
  <2>5. ASSUME NEW u \in Threads, computed'[Statics(u)]
        PROVE  \/ fingerprint[Statics(u)] = HashOf["C"][TypeOf(u)]
               \/ \E v \in Threads : Statics(v) = Statics(u) /\ at'[v] = "flag_set"
    BY <1>1, <2>2, <2>3, <2>4, <2>5 DEF Race, p
  <2>6. Race'
    BY <1>1, <2>1, <2>2, <2>3, <2>4, <2>5 DEF Race, p
  <2>7. Hashed'
    BY <1>1, <2>2, <2>3, <2>4 DEF Hashed
  <2> QED
    BY <2>6, <2>7
<1>5. CASE read_hash(t)
  <2>1. /\ at[t] = "read_hash" /\ at' = [at EXCEPT ![t] = "hashed"]
        /\ hash' = [hash EXCEPT ![t] = fingerprint[p]]
        /\ early' = IF Computing(t) THEN early \cup {t} ELSE early \ {t}
        /\ UNCHANGED <<computed, fingerprint>>
    BY <1>5 DEF read_hash, p
  <2>2. \A u \in Threads : /\ at'[u] = IF u = t THEN "hashed" ELSE at[u]
                           /\ hash'[u] = IF u = t THEN fingerprint[p] ELSE hash[u]
    BY <2>1
  <2>3. Lang(t) = "C" /\ computed[p] /\ fingerprint[p] \in {ZeroHash, right}
    BY <2>1 DEF Race, p, right
  <2>4. fingerprint[p] = right \/ Computing(t)
    BY <2>1, <2>3 DEF Race, Computing, p, right
  <2>5. Race'
    BY <1>1, <2>1, <2>2 DEF Race
  <2>6. ASSUME t = Dispatcher, Computing(t) PROVE chan.type = chan.want \/ chan.users > 0
    <3>1. PICK u \in Threads \ {t} : Statics(u) = Statics(t)
      BY <2>6 DEF Computing
    <3>2. chan.type # chan.want => u \in Users
      BY <2>6, <3>1, Threading DEF Statics, Receivers
    <3> QED
      BY <3>2, Threading
  <2>7. Hashed'
    BY <1>1, <2>1, <2>2, <2>3, <2>4, <2>6 DEF Hashed, right
  <2> QED
    BY <2>5, <2>7
<1>6. CASE getHash(t)
  <2>1. /\ at[t] = "get_hash" /\ Lang(t) = "C++" /\ at' = [at EXCEPT ![t] = "hashed"]
        /\ hash' = [hash EXCEPT ![t] = HashOf["C++"][TypeOf(t)]]
        /\ UNCHANGED <<computed, fingerprint, early>>
    BY <1>6 DEF getHash
  <2>2. \A u \in Threads :
          /\ at'[u] = IF u = t THEN "hashed" ELSE at[u]
          /\ hash'[u] = IF u = t THEN HashOf["C++"][TypeOf(t)] ELSE hash[u]
    BY <2>1
  <2>3. Race'
    BY <1>1, <2>1, <2>2 DEF Race
  <2>4. Hashed'
    BY <1>1, <2>1, <2>2 DEF Hashed
  <2> QED
    BY <2>3, <2>4
<1> QED
  BY <1>2, <1>3, <1>4, <1>5, <1>6 DEF get_hash

-----------------------------------------------------------------------------
(* What is under way and what has been handed over.                        *)

\* A packet holds the encoding of a message, under the fingerprint or, from a
\* thread that met another, under zero.
Packet(p) ==
  /\ p.msg \in Messages[chan.type]
  /\ \E sent \in Sent : /\ p.bytes = Encoded(p.msg, sent)
                        /\ sent # HashOf[chan.from][chan.type] => p.early

\* What the stub works on is the beginning of one.
Arrived(c) ==
  /\ c.msg \in Messages[chan.type]
  /\ \E sent \in Sent :
       \E cut \in 0..Len(Encoded(c.msg, sent)) :
         /\ c.bytes = SubSeq(Encoded(c.msg, sent), 1, cut)
         /\ c.whole <=> cut = Len(Encoded(c.msg, sent))
         /\ sent # HashOf[chan.from][chan.type] => c.early

Refused(r) ==
  /\ r.blocks \in Nat /\ Len(r.packet.bytes) \in Nat
  /\ r.packet.whole /\ chan.type = chan.want => r.packet.early \/ r.late
  /\ r.blocks > 0 => MayCost(r)

UnderWay ==
  /\ \A t \in Publishers : at[t] \in InCall => msg[t] \in Messages[chan.type]
  /\ at[Dispatcher] # "done"
  /\ at[Dispatcher] \in InCall => Arrived(cur)
  /\ \A p \in wire : Packet(p)

Ends ==
  /\ HandedOver
  /\ \A r \in refused : Refused(r)
  /\ copy # <<>> => CleanupBlocks(chan.to, chan.want, copy[1]) \in Nat
  /\ status \in [Threads -> {"none", "no memory", "published", "send failed"}]

\* Who holds blocks, and how many: only a decode that failed half-way makes the
\* heap larger than that.
Busy == {t \in Publishers : at[t] \in InCall}
Held == Cardinality(Busy) + (IF sub = "held" THEN 1 ELSE 0)
          + IF copy = <<>> THEN 0 ELSE 1 + CleanupBlocks(chan.to, chan.want, copy[1])
Heap ==
  /\ heap \in Int
  /\ heap >= Held
  /\ (\A r \in refused : r.blocks = 0) => heap = Held

IInv == CodecRight /\ Typed /\ Race /\ Hashed /\ UnderWay /\ Ends /\ Heap

-----------------------------------------------------------------------------
(* Encoding and decoding, as the channel uses them.                        *)

\* A thread that publishes encodes with the fingerprint or with zero, in a buffer
\* that is large enough.
LEMMA Encodes ==
  ASSUME IInv, NEW t \in Publishers, at[t] = "hashed"
  PROVE  LET buf == Encode(Lang(t), chan.type, hash[t], msg[t],
                           EncodedSize(Lang(t), chan.type, msg[t]))
         IN  /\ buf # EncodeFails
             /\ msg[t] \in Messages[chan.type]
             /\ hash[t] \in Sent /\ buf = Encoded(msg[t], hash[t])
             /\ hash[t] # HashOf[chan.from][chan.type] => t \in early
<1>1. t \in Threads /\ t \notin Receivers
  BY Threading DEF IInv, Typed
<1>2. Lang(t) = chan.from /\ TypeOf(t) = chan.type
  BY <1>1 DEF Lang, TypeOf
<1>3. msg[t] \in Messages[chan.type]
  BY <1>1 DEF IInv, UnderWay, InCall, Place
<1>4. hash[t] \in Sent /\ (hash[t] # HashOf[chan.from][chan.type] => t \in early)
  BY <1>1, <1>2 DEF IInv, Hashed, Sent
<1>5. Encoded(msg[t], hash[t]) # EncodeFails
  BY <1>3, <1>4 DEF IInv, CodecRight, EncodesWhole
<1> QED
  BY <1>2, <1>3, <1>4, <1>5 DEF Encoded

\* What a decode of the packet at hand says, and what it takes from the heap.
LEMMA Decodes ==
  ASSUME IInv, at[Dispatcher] = "hashed"
  PROVE  LET d == Decode(chan.to, chan.want, hash[Dispatcher], cur.bytes)
             late == Dispatcher \in early
         IN  /\ d.ok => \/ chan.type = chan.want /\ cur.whole /\ d.val = cur.msg
                        \/ Confused(cur, late)
             /\ d.ok => /\ d.blocks = CleanupBlocks(chan.to, chan.want, d.val)
                        /\ d.blocks = CloneBlocks(chan.to, chan.want, d.val)
             /\ d.blocks \in Nat
             /\ ~d.ok => Refused([packet |-> cur, late |-> late, blocks |-> d.blocks])
<1> DEFINE h == hash[Dispatcher]
           d == Decode(chan.to, chan.want, h, cur.bytes)
           late == Dispatcher \in early
           fromHash == HashOf[chan.from][chan.type]
           toHash == HashOf[chan.to][chan.want]
<1>1. Dispatcher \in Threads /\ Lang(Dispatcher) = chan.to /\ TypeOf(Dispatcher) = chan.want
  BY Threading DEF IInv, Typed, Lang, TypeOf
<1>2. /\ h = toHash \/ (h = ZeroHash /\ late)
      /\ h \in Compared
  BY <1>1 DEF IInv, Hashed, Compared
<1>3. PICK sent \in Sent :
        \E cut \in 0..Len(Encoded(cur.msg, sent)) :
          /\ cur.msg \in Messages[chan.type]
          /\ cur.bytes = SubSeq(Encoded(cur.msg, sent), 1, cut)
          /\ cur.whole <=> cut = Len(Encoded(cur.msg, sent))
          /\ sent # fromHash => cur.early
  BY DEF IInv, UnderWay, Arrived, InCall, Place
<1> DEFINE bytes == Encoded(cur.msg, sent)
<1>4. PICK cut \in 0..Len(bytes) :
        /\ cur.msg \in Messages[chan.type]
        /\ cur.bytes = SubSeq(bytes, 1, cut)
        /\ cur.whole <=> cut = Len(bytes)
        /\ sent # fromHash => cur.early
  BY <1>3
<1>5. HashesDiffer /\ bytes \in Seq(0..255) /\ DecodesWhole(cur.msg, sent, bytes)
  BY <1>3, <1>4 DEF IInv, CodecRight, EncodesWhole
<1> HIDE DEF bytes
<1>6. /\ d.blocks \in Nat
      /\ sent # h => ~d.ok
      /\ sent # h \/ cut <= 8 => d.blocks = 0
      /\ d.ok => /\ d.blocks = CleanupBlocks(chan.to, chan.want, d.val)
                 /\ d.blocks = CloneBlocks(chan.to, chan.want, d.val)
      /\ chan.type = chan.want => /\ d.ok <=> sent = h /\ cut = Len(bytes)
                                  /\ d.ok => d.val = cur.msg
  BY <1>2, <1>4, <1>5 DEF DecodesWhole
<1>7. /\ sent \in {ZeroHash, fromHash} /\ fromHash # ZeroHash /\ toHash # ZeroHash
      /\ fromHash = toHash <=> chan.type = chan.want
  BY <1>5, ChannelAssumption DEF IInv, Typed, HashesDiffer, Sent
<1>8. Len(cur.bytes) = cut
  <2>1. /\ Len(bytes) \in Nat
        /\ \A i \in 1..Len(bytes) : bytes[i] \in 0..255
    BY <1>5, LenProperties, ElementOfSeq
  <2>2. \A i \in 1..cut : bytes[i] \in 0..255
    BY <1>4, <2>1
  <2> QED
    BY <1>4, <2>1, <2>2, SubSeqProperties
<1> HIDE DEF h, d, fromHash, toHash, late
<1>9. sent = h /\ chan.type # chan.want => Confused(cur, late)
  BY <1>2, <1>4, <1>7 DEF Confused
<1>10. d.ok => \/ chan.type = chan.want /\ cur.whole /\ d.val = cur.msg
               \/ Confused(cur, late)
  BY <1>4, <1>6, <1>9
<1>11. ~d.ok => Refused([packet |-> cur, late |-> late, blocks |-> d.blocks])
  <2> SUFFICES ASSUME ~d.ok
               PROVE  /\ Len(cur.bytes) \in Nat
                      /\ cur.whole /\ chan.type = chan.want => cur.early \/ late
                      /\ d.blocks > 0 => \/ ~cur.whole /\ Len(cur.bytes) > 8
                                         \/ Confused(cur, late)
    BY <1>6 DEF Refused, MayCost
  <2>1. cur.whole /\ chan.type = chan.want => sent # h
    BY <1>4, <1>6
  <2>2. sent # h /\ chan.type = chan.want => cur.early \/ late
    BY <1>2, <1>4, <1>7
  <2>3. d.blocks > 0 => sent = h /\ cut > 8
    BY <1>6
  <2>4. d.blocks > 0 /\ chan.type = chan.want => ~cur.whole
    BY <1>4, <1>6, <2>3
  <2> QED
    BY <1>4, <1>8, <1>9, <2>1, <2>2, <2>3, <2>4
<1> QED
  BY <1>6, <1>10, <1>11 DEF h, d, late

-----------------------------------------------------------------------------
(* The steps.                                                              *)

\* What is said of the types alone stays, as the channel stays.
LEMMA CodecStays ==
  ASSUME chan' = chan
  PROVE  /\ CodecRight => CodecRight'
         /\ Sent' = Sent /\ Publishers' = Publishers
         /\ \A m, sent : Encoded(m, sent)' = Encoded(m, sent)
<1>1. Sent' = Sent /\ Compared' = Compared /\ Publishers' = Publishers
  BY DEF Sent, Compared, Publishers
<1>2. \A m, sent : Encoded(m, sent)' = Encoded(m, sent)
  BY DEF Encoded
<1>3. ASSUME CodecRight, NEW m \in Messages[chan.type], NEW sent \in Sent
      PROVE  HashesDiffer' /\ EncodesWhole(m, Encoded(m, sent))'
               /\ DecodesWhole(m, sent, Encoded(m, sent))'
  <2>1. HashesDiffer /\ EncodesWhole(m, Encoded(m, sent)) /\ DecodesWhole(m, sent, Encoded(m, sent))
    BY <1>3 DEF CodecRight
  <2>2. HashesDiffer'
    BY <2>1 DEF HashesDiffer
  <2>3. EncodesWhole(m, Encoded(m, sent))'
    BY <1>2, <2>1 DEF EncodesWhole
  <2>4. DecodesWhole(m, sent, Encoded(m, sent))'
    BY <1>1, <1>2, <2>1 DEF DecodesWhole
  <2> QED
    BY <2>2, <2>3, <2>4
<1>4. CodecRight => CodecRight'
  BY <1>1, <1>3 DEF CodecRight
<1> QED
  BY <1>1, <1>2, <1>4

\* Types are preserved.
LEMMA TypedStays ==
  ASSUME IInv, [Next]_vars
  PROVE  Typed'
<1> USE DEF IInv, Typed
<1>1. chan' = chan /\ Known' = Known /\ Threads' = Threads
  BY ChanStays DEF Known, Threads
<1>2. ASSUME NEW t \in Threads, get_hash(t)
      PROVE  Typed'
  <2>1. Statics(t) \in Programs /\ HashOf["C"][TypeOf(t)] \in Known
          /\ HashOf["C++"][TypeOf(t)] \in Known
    BY StaticsIs, ThreadFacts
  <2>2. msg' = msg
    BY <1>2 DEF get_hash, test_computed, store_hash, store_computed, read_hash, getHash, others
  <2>3. CASE test_computed(t)
    <3>1. PICK q \in {"read_hash", "compute"} : at' = [at EXCEPT ![t] = q]
      BY <2>3 DEF test_computed
    <3> QED
      BY <1>1, <2>2, <2>3, <3>1 DEF test_computed, Place
  <2>4. CASE store_hash(t)
    <3>1. PICK q \in {"hash_set", "read_hash"} : at' = [at EXCEPT ![t] = q]
      BY <2>4 DEF store_hash
    <3> QED
      BY <1>1, <2>1, <2>2, <2>4, <3>1 DEF store_hash, Place
  <2>5. CASE store_computed(t)
    <3>1. PICK q \in {"flag_set", "read_hash"} : at' = [at EXCEPT ![t] = q]
      BY <2>5 DEF store_computed
    <3> QED
      BY <1>1, <2>1, <2>2, <2>5, <3>1 DEF store_computed, Place
  <2>6. CASE read_hash(t)
    BY <1>1, <2>1, <2>2, <2>6 DEF read_hash, Place
  <2>7. CASE getHash(t)
    BY <1>1, <2>1, <2>2, <2>7 DEF getHash, Place
  <2> QED
    BY <1>2, <2>3, <2>4, <2>5, <2>6, <2>7 DEF get_hash
<1>3. ASSUME NEW t \in Threads, publish(t)
      PROVE  Typed'
  <2>1. PICK m \in Messages[chan.type] : msg' = [msg EXCEPT ![t] = m]
    BY <1>3 DEF publish
  <2>2. PICK q \in {"get_hash", "done"} : at' = [at EXCEPT ![t] = q]
    BY <1>3 DEF publish
  <2> QED
    BY <1>1, <1>3, <2>1, <2>2 DEF publish, locals, Place
<1>4. ASSUME NEW t \in Threads, encode_publish_free(t)
      PROVE  Typed'
  BY <1>1, <1>4 DEF encode_publish_free, locals, Place
<1>5. ASSUME NEW t \in Threads, use(t)
      PROVE  Typed'
  <2>1. PICK q \in {"get_hash", "done"} : at' = [at EXCEPT ![t] = q]
    BY <1>5 DEF use
  <2> QED
    BY <1>1, <1>5, <2>1 DEF use, others, Place
<1>6. CASE subscribe \/ unsubscribe \/ Lose \/ destroy \/ UNCHANGED vars
  BY <1>1, <1>6 DEF subscribe, unsubscribe, Lose, destroy, vars, rest
<1>7. CASE handle \/ handler_stub
  <2>1. PICK q \in {"get_hash", "idle"} : at' = [at EXCEPT ![Dispatcher] = q]
    BY <1>7 DEF handle, handler_stub
  <2> QED
    BY <1>1, <1>7, <2>1 DEF handle, handler_stub, rest, Place
<1> QED
  BY <1>2, <1>3, <1>4, <1>6, <1>7, <1>5 DEF Next

\* So is what is said of the race.
LEMMA RaceHolds ==
  ASSUME IInv, [Next]_vars
  PROVE  Race' /\ Hashed'
<1> USE DEF IInv
<1>1. ASSUME NEW t \in Threads, get_hash(t)
      PROVE  Race' /\ Hashed'
  BY <1>1, GetHashKeeps
<1>2. ASSUME NEW t \in Threads, publish(t) \/ encode_publish_free(t) \/ use(t)
      PROVE  Race' /\ Hashed'
  <2>1. Outside(t) /\ UNCHANGED <<chan, computed, fingerprint, hash, early>>
    BY <1>2 DEF Outside, publish, encode_publish_free, use, locals, others
  <2> QED
    BY <2>1, RaceStays
<1>3. CASE subscribe \/ unsubscribe \/ Lose \/ destroy \/ UNCHANGED vars
  <2>1. UNCHANGED <<chan, computed, fingerprint, hash, early, at>>
    BY <1>3 DEF subscribe, unsubscribe, Lose, destroy, vars, rest
  <2> QED
    BY <2>1, RaceStays
<1>4. CASE handle \/ handler_stub
  <2>1. Outside(Dispatcher) /\ UNCHANGED <<chan, computed, fingerprint, hash, early>>
    BY <1>4 DEF Outside, handle, handler_stub, rest
  <2>2. Dispatcher \in Threads
    BY Threading DEF Typed
  <2> QED
    BY <2>1, <2>2, RaceStays
<1> QED
  BY <1>1, <1>2, <1>3, <1>4 DEF Next

-----------------------------------------------------------------------------
\* A step of get_hash keeps its thread in the call and touches nothing else.
LEMMA GetHashFrame ==
  ASSUME IInv, NEW t \in Threads, get_hash(t)
  PROVE  /\ UNCHANGED others
         /\ at[t] \in InCall
         /\ \E q \in InCall : at' = [at EXCEPT ![t] = q]
<1>1. UNCHANGED others
  BY DEF get_hash, test_computed, store_hash, store_computed, read_hash, getHash
<1>2. at[t] \in InCall
  BY DEF get_hash, test_computed, store_hash, store_computed, read_hash, getHash, InCall, Place
<1>3. \E q \in InCall : at' = [at EXCEPT ![t] = q]
  <2>1. \E q \in {"read_hash", "compute", "hash_set", "flag_set", "hashed"} :
          at' = [at EXCEPT ![t] = q]
    BY DEF get_hash, test_computed, store_hash, store_computed, read_hash, getHash
  <2> QED
    BY <2>1 DEF InCall, Place
<1> QED
  BY <1>1, <1>2, <1>3

\* A step that moves no packet leaves alone what is said of packets.
LEMMA PacketStays ==
  ASSUME chan' = chan, NEW p, Packet(p)
  PROVE  Packet(p)'
BY CodecStays DEF Packet

\* The same for the packet the stub works on.
LEMMA ArrivedStays ==
  ASSUME chan' = chan, NEW c, Arrived(c)
  PROVE  Arrived(c)'
BY CodecStays DEF Arrived

\* What is under way stays the encoding of a message, and the stub gets the
\* beginning of one.
LEMMA UnderWayStays ==
  ASSUME IInv, [Next]_vars
  PROVE  UnderWay'
<1> USE DEF IInv
<1>1. /\ chan' = chan /\ Publishers' = Publishers /\ Threads' = Threads
      /\ Dispatcher \in Threads /\ Dispatcher \notin Publishers
      /\ Publishers \subseteq Threads
  BY ChanStays, CodecStays, Threading DEF Threads, Typed, Receivers
<1>2. /\ \A p : Packet(p) => Packet(p)'
      /\ \A c : Arrived(c) => Arrived(c)'
  BY <1>1, PacketStays, ArrivedStays
<1>3. ASSUME NEW t \in Threads, get_hash(t)
      PROVE  UnderWay'
  <2>1. PICK q \in InCall : at' = [at EXCEPT ![t] = q]
    BY <1>3, GetHashFrame
  <2>2. UNCHANGED <<msg, cur, wire>> /\ at[t] \in InCall
    BY <1>3, GetHashFrame DEF others
  <2>3. \A u \in Threads : at'[u] = IF u = t THEN q ELSE at[u]
    BY <2>1 DEF Typed
  <2> QED
    BY <1>1, <1>2, <2>2, <2>3 DEF UnderWay, InCall
<1>4. ASSUME NEW t \in Threads, publish(t)
      PROVE  UnderWay'
  <2>1. PICK m \in Messages[chan.type] : msg' = [msg EXCEPT ![t] = m]
    BY <1>4 DEF publish
  <2>2. PICK q \in {"get_hash", "done"} : at' = [at EXCEPT ![t] = q]
    BY <1>4 DEF publish
  <2>3. t \in Publishers /\ UNCHANGED <<cur, wire>>
    BY <1>4 DEF publish, locals
  <2>4. \A u \in Threads : /\ at'[u] = IF u = t THEN q ELSE at[u]
                           /\ msg'[u] = IF u = t THEN m ELSE msg[u]
    BY <2>1, <2>2 DEF Typed
  <2> QED
    BY <1>1, <1>2, <2>3, <2>4 DEF UnderWay, InCall
<1>5. ASSUME NEW t \in Threads, use(t)
      PROVE  UnderWay'
  <2>1. PICK q \in {"get_hash", "done"} : at' = [at EXCEPT ![t] = q]
    BY <1>5 DEF use
  <2>2. t \notin Publishers /\ t # Dispatcher /\ UNCHANGED <<msg, cur, wire>>
    BY <1>5, Threading, ChannelAssumption DEF use, others, Typed, Receivers, Users, Dispatcher
  <2>3. \A u \in Threads : u # t => at'[u] = at[u]
    BY <2>1 DEF Typed
  <2> QED
    BY <1>1, <1>2, <2>2, <2>3 DEF UnderWay
<1>6. ASSUME NEW t \in Threads, encode_publish_free(t)
      PROVE  UnderWay'
  <2>1. /\ t \in Publishers /\ at[t] = "hashed" /\ at' = [at EXCEPT ![t] = "done"]
        /\ UNCHANGED <<cur, msg>>
    BY <1>6 DEF encode_publish_free, locals
  <2>2. \A u \in Threads : at'[u] = IF u = t THEN "done" ELSE at[u]
    BY <2>1 DEF Typed
  <2>3. \A p \in wire' : Packet(p)
    <3> DEFINE buf == Encode(Lang(t), chan.type, hash[t], msg[t],
                             EncodedSize(Lang(t), chan.type, msg[t]))
    <3>1. wire' = wire \/ wire' = wire \cup {[bytes |-> buf, msg |-> msg[t],
                                             early |-> t \in early, by |-> t]}
      BY <1>6 DEF encode_publish_free
    <3>2. /\ msg[t] \in Messages[chan.type]
          /\ hash[t] \in Sent /\ buf = Encoded(msg[t], hash[t])
          /\ hash[t] # HashOf[chan.from][chan.type] => t \in early
      BY <2>1, Encodes
    <3> HIDE DEF buf
    <3>3. Packet([bytes |-> buf, msg |-> msg[t], early |-> t \in early, by |-> t])
      BY <3>2 DEF Packet
    <3> QED
      BY <3>1, <3>3 DEF UnderWay
  <2> QED
    BY <1>1, <1>2, <2>1, <2>2, <2>3 DEF UnderWay, InCall
<1>7. CASE subscribe \/ unsubscribe \/ destroy \/ UNCHANGED vars
  <2>1. UNCHANGED <<at, msg, cur, wire>>
    BY <1>7 DEF subscribe, unsubscribe, destroy, vars, rest
  <2> QED
    BY <1>1, <1>2, <2>1 DEF UnderWay
<1>8. CASE Lose
  <2>1. UNCHANGED <<at, msg, cur>> /\ wire' \subseteq wire
    BY <1>8 DEF Lose, rest
  <2> QED
    BY <1>1, <1>2, <2>1 DEF UnderWay
<1>9. CASE handle
  <2>0. PICK p \in wire : \E cut \in 0..Len(p.bytes) :
          /\ wire' = wire \ {p}
          /\ cur' = [bytes |-> SubSeq(p.bytes, 1, cut), whole |-> cut = Len(p.bytes),
                     msg |-> p.msg, early |-> p.early]
    BY <1>9 DEF handle
  <2>1. PICK cut \in 0..Len(p.bytes) :
          /\ wire' = wire \ {p}
          /\ cur' = [bytes |-> SubSeq(p.bytes, 1, cut), whole |-> cut = Len(p.bytes),
                     msg |-> p.msg, early |-> p.early]
    BY <2>0
  <2>2. at' = [at EXCEPT ![Dispatcher] = "get_hash"] /\ UNCHANGED msg
    BY <1>9 DEF handle, rest
  <2>3. \A u \in Threads : at'[u] = IF u = Dispatcher THEN "get_hash" ELSE at[u]
    BY <2>2 DEF Typed
  <2>4. Arrived(cur')
    <3>1. Packet(p)
      BY DEF UnderWay
    <3>2. PICK sent \in Sent : /\ p.bytes = Encoded(p.msg, sent)
                               /\ sent # HashOf[chan.from][chan.type] => p.early
      BY <3>1 DEF Packet
    <3> QED
      BY <2>1, <3>1, <3>2 DEF Packet, Arrived
  <2>5. Arrived(cur)'
    BY <1>1, <2>4, CodecStays DEF Arrived
  <2> QED
    BY <1>1, <1>2, <2>1, <2>2, <2>3, <2>5 DEF UnderWay
<1>10. CASE handler_stub
  <2>1. at' = [at EXCEPT ![Dispatcher] = "idle"] /\ UNCHANGED <<msg, wire>>
    BY <1>10 DEF handler_stub, rest
  <2>2. \A u \in Threads : at'[u] = IF u = Dispatcher THEN "idle" ELSE at[u]
    BY <2>1 DEF Typed
  <2> QED
    BY <1>1, <1>2, <2>1, <2>2 DEF UnderWay, InCall
<1> QED
  BY <1>3, <1>4, <1>6, <1>7, <1>8, <1>9, <1>10, <1>5 DEF Next

\* The two outcomes of the handler stub.
Refuses ==
  LET d == Decode(chan.to, chan.want, hash[Dispatcher], cur.bytes)
  IN  /\ ~d.ok
      /\ refused' = refused \cup {[packet |-> cur, late |-> Dispatcher \in early,
                                   blocks |-> d.blocks]}
      /\ heap' = heap + d.blocks
      /\ UNCHANGED <<copy, handed>>
Given(val) == [packet |-> cur, late |-> Dispatcher \in early, val |-> val]
Hands ==
  LET d == Decode(chan.to, chan.want, hash[Dispatcher], cur.bytes)
  IN  /\ d.ok
      /\ handed' = handed \cup {Given(d.val)}
      /\ UNCHANGED refused
      /\ \/ copy' = copy /\ heap' = heap
         \/ /\ copy = <<>> /\ copy' = <<d.val>>
            /\ heap' = heap + 1 + CleanupBlocks(chan.to, chan.want, d.val)

\* A message that is handed over costs nothing but the copy the user takes.
LEMMA StubOutcomes ==
  ASSUME IInv, handler_stub, heap \in Int
  PROVE  at[Dispatcher] = "hashed" /\ (Refuses \/ Hands)
<1> DEFINE d == Decode(chan.to, chan.want, hash[Dispatcher], cur.bytes)
<1>1. at[Dispatcher] = "hashed"
  BY DEF handler_stub
<1>2. CASE ~d.ok
  BY <1>1, <1>2 DEF handler_stub, Refuses
<1>3. CASE d.ok
  <2>1. d.blocks = CleanupBlocks(chan.to, chan.want, d.val) /\ d.blocks \in Nat
    BY <1>1, <1>3, Decodes
  <2>2. CloneBlocks(chan.to, chan.want, d.val) = CleanupBlocks(chan.to, chan.want, d.val)
    BY <1>1, <1>3, <2>1, Decodes
  <2> DEFINE after == heap + d.blocks - CleanupBlocks(chan.to, chan.want, d.val)
  <2>3. /\ d.ok /\ handed' = handed \cup {Given(d.val)}
        /\ UNCHANGED refused
        /\ \/ heap' = after /\ UNCHANGED copy
           \/ /\ copy = <<>> /\ copy' = <<d.val>>
              /\ heap' = after + 1 + CloneBlocks(chan.to, chan.want, d.val)
    BY <1>1, <1>3 DEF handler_stub, Given
  <2> HIDE DEF d
  <2>4. after = heap
    BY <2>1
  <2> HIDE DEF after
  <2> QED
    BY <1>1, <2>2, <2>3, <2>4 DEF Hands, d
<1> QED
  BY <1>2, <1>3

\* What has been handed over, refused, copied and reported.
LEMMA EndsStay ==
  ASSUME IInv, [Next]_vars
  PROVE  Ends'
<1> USE DEF IInv
<1>1. chan' = chan /\ Threads' = Threads
  BY ChanStays DEF Threads
<1>2. ASSUME UNCHANGED <<handed, refused, copy, status>>
      PROVE  Ends'
  BY <1>1, <1>2 DEF Ends, HandedOver, Refused, MayCost, Confused
<1>3. ASSUME NEW t \in Threads, get_hash(t)
      PROVE  Ends'
  BY <1>2, <1>3, GetHashFrame DEF others
<1>4. ASSUME NEW t \in Threads, use(t)
      PROVE  Ends'
  BY <1>2, <1>4 DEF use, others
<1>5. ASSUME NEW t \in Threads, publish(t)
      PROVE  Ends'
  <2>1. /\ UNCHANGED <<handed, refused, copy>>
        /\ status' = status \/ status' = [status EXCEPT ![t] = "no memory"]
    BY <1>5 DEF publish, locals
  <2>2. status' \in [Threads -> {"none", "no memory", "published", "send failed"}]
    BY <2>1 DEF Ends
  <2> QED
    BY <1>1, <2>1, <2>2 DEF Ends, HandedOver, Refused, MayCost, Confused
<1>6. ASSUME NEW t \in Threads, encode_publish_free(t)
      PROVE  Ends'
  <2> DEFINE buf == Encode(Lang(t), chan.type, hash[t], msg[t],
                           EncodedSize(Lang(t), chan.type, msg[t]))
  <2>1. t \in Publishers /\ at[t] = "hashed" /\ UNCHANGED <<handed, refused, copy>>
    BY <1>6 DEF encode_publish_free, locals
  <2>2. buf # EncodeFails
    BY <2>1, Encodes
  <2>3. \E result \in {"published", "send failed"} : status' = [status EXCEPT ![t] = result]
    BY <1>6, <2>2 DEF encode_publish_free
  <2>4. status' \in [Threads -> {"none", "no memory", "published", "send failed"}]
    BY <2>3 DEF Ends
  <2> QED
    BY <1>1, <2>1, <2>4 DEF Ends, HandedOver, Refused, MayCost, Confused
<1>7. CASE subscribe \/ unsubscribe \/ Lose \/ handle \/ UNCHANGED vars
  BY <1>2, <1>7 DEF subscribe, unsubscribe, Lose, handle, vars, rest
<1>8. CASE destroy
  <2>1. copy' = <<>> /\ UNCHANGED <<handed, refused, status>>
    BY <1>8 DEF destroy, rest
  <2> QED
    BY <1>1, <2>1 DEF Ends, HandedOver, Refused, MayCost, Confused
<1>9. CASE handler_stub
  <2> DEFINE d == Decode(chan.to, chan.want, hash[Dispatcher], cur.bytes)
             r == [packet |-> cur, late |-> Dispatcher \in early, blocks |-> d.blocks]
  <2>1. at[Dispatcher] = "hashed" /\ (Refuses \/ Hands) /\ status' = status
    BY <1>9, StubOutcomes DEF Heap, handler_stub, rest
  <2>2. /\ d.ok => \/ chan.type = chan.want /\ cur.whole /\ d.val = cur.msg
                   \/ Confused(cur, Dispatcher \in early)
        /\ d.ok => CleanupBlocks(chan.to, chan.want, d.val) \in Nat
        /\ ~d.ok => Refused(r)
    BY <2>1, Decodes
  <2>3. CASE Refuses
    <3>1. /\ ~d.ok /\ refused' = refused \cup {r} /\ UNCHANGED <<copy, handed>>
      BY <2>3 DEF Refuses
    <3> HIDE DEF r, d
    <3>2. \A x : Refused(x) => Refused(x)'
      BY <1>1 DEF Refused, MayCost, Confused
    <3> QED
      BY <1>1, <2>1, <2>2, <3>1, <3>2 DEF Ends, HandedOver, Confused
  <2>4. CASE Hands
    <3>1. /\ d.ok /\ handed' = handed \cup {Given(d.val)}
          /\ UNCHANGED refused
          /\ copy' = copy \/ copy' = <<d.val>>
      BY <2>4 DEF Hands
    <3> HIDE DEF r, d
    <3>2. \A x : Refused(x) => Refused(x)'
      BY <1>1 DEF Refused, MayCost, Confused
    <3>3. HandedOver'
      <4>1. ASSUME NEW h \in handed'
            PROVE  \/ chan.type = chan.want /\ h.packet.whole /\ h.val = h.packet.msg
                   \/ Confused(h.packet, h.late)
        <5>1. CASE h \in handed
          BY <5>1 DEF Ends, HandedOver
        <5>2. CASE h = Given(d.val)
          BY <2>2, <3>1, <5>2 DEF Given
        <5> QED
          BY <3>1, <5>1, <5>2
      <4> QED
        BY <1>1, <4>1 DEF HandedOver, Confused
    <3>4. copy' # <<>> => CleanupBlocks(chan'.to, chan'.want, copy'[1]) \in Nat
      <4>1. CASE copy' = copy
        BY <1>1, <4>1 DEF Ends
      <4>2. CASE copy' = <<d.val>>
        <5>1. copy'[1] = d.val
          BY <4>2
        <5> QED
          BY <1>1, <2>2, <3>1, <5>1
      <4> QED
        BY <3>1, <4>1, <4>2
    <3>5. \A x \in refused' : Refused(x)'
      BY <3>1, <3>2 DEF Ends
    <3>6. status' \in [Threads' -> {"none", "no memory", "published", "send failed"}]
      BY <1>1, <2>1 DEF Ends
    <3> QED
      BY <3>3, <3>4, <3>5, <3>6 DEF Ends
  <2> QED
    BY <2>1, <2>3, <2>4
<1> QED
  BY <1>3, <1>5, <1>6, <1>7, <1>8, <1>9, <1>4 DEF Next

-----------------------------------------------------------------------------
(* The heap.                                                               *)

\* The publishers in a call can be counted.
LEMMA BusyFinite == ASSUME chan \in Channels PROVE IsFiniteSet(Busy) /\ Cardinality(Busy) \in Nat
<1>1. IsFiniteSet(Publishers)
  BY ChannelAssumption, FS_Interval DEF Publishers
<1>2. IsFiniteSet(Busy)
  BY <1>1, FS_Subset DEF Busy
<1> QED
  BY <1>2, FS_CardinalityType

\* Every step changes the heap as it changes who holds blocks, but for a decode
\* that fails half-way.
LEMMA HeapHolds ==
  ASSUME IInv, [Next]_vars
  PROVE  Heap'
<1> USE DEF IInv
<1> DEFINE Subs == IF sub = "held" THEN 1 ELSE 0
           Copies == IF copy = <<>> THEN 0
                     ELSE 1 + CleanupBlocks(chan.to, chan.want, copy[1])
<1>1. /\ chan' = chan /\ Publishers' = Publishers /\ Threads' = Threads
      /\ Dispatcher \in Threads /\ Dispatcher \notin Publishers
      /\ Publishers \subseteq Threads
  BY ChanStays, CodecStays, Threading DEF Threads, Typed, Receivers
<1>2. /\ IsFiniteSet(Busy) /\ Cardinality(Busy) \in Nat
      /\ Held = Cardinality(Busy) + Subs + Copies /\ Held' = Cardinality(Busy') + Subs' + Copies'
  BY BusyFinite DEF Typed, Held
<1>3. copy # <<>> => CleanupBlocks(chan.to, chan.want, copy[1]) \in Nat
  BY DEF Ends
<1>4. Subs \in Nat /\ Copies \in Nat
  BY <1>3
<1>5. ASSUME \A t \in Publishers : at'[t] \in InCall <=> at[t] \in InCall
      PROVE  Busy' = Busy
  BY <1>1, <1>5 DEF Busy
<1>6. ASSUME UNCHANGED <<heap, sub, copy, refused>>, Busy' = Busy
      PROVE  Heap'
  BY <1>1, <1>6 DEF Heap, Held
<1>7. ASSUME NEW t \in Threads, get_hash(t)
      PROVE  Heap'
  <2>1. PICK q \in InCall : at' = [at EXCEPT ![t] = q]
    BY <1>7, GetHashFrame
  <2>2. at[t] \in InCall /\ UNCHANGED <<heap, sub, copy, refused>>
    BY <1>7, GetHashFrame DEF others
  <2>3. Busy' = Busy
    BY <1>1, <1>5, <2>1, <2>2 DEF Typed
  <2> QED
    BY <1>6, <2>2, <2>3
<1>8. ASSUME NEW t \in Threads, use(t)
      PROVE  Heap'
  <2>1. /\ t \notin Publishers /\ UNCHANGED <<heap, sub, copy, refused>>
        /\ \E q \in Place : at' = [at EXCEPT ![t] = q]
    BY <1>8, Threading DEF use, others, Typed, Receivers, Place
  <2>2. Busy' = Busy
    BY <1>1, <1>5, <2>1 DEF Typed
  <2> QED
    BY <1>6, <2>1, <2>2
<1>9. ASSUME NEW t \in Threads, publish(t)
      PROVE  Heap'
  <2>1. /\ t \in Publishers /\ at[t] = "idle" /\ t \notin Busy
        /\ UNCHANGED <<sub, copy, refused>>
    BY <1>9 DEF publish, locals, Busy, InCall
  <2>2. CASE heap' = heap + 1 /\ at' = [at EXCEPT ![t] = "get_hash"]
    <3>1. Busy' = Busy \cup {t}
      BY <1>1, <2>1, <2>2 DEF Busy, InCall, Place, Typed
    <3>2. Cardinality(Busy') = Cardinality(Busy) + 1
      BY <1>2, <2>1, <3>1, FS_AddElement
    <3>3. Held' = Held + 1
      BY <1>1, <1>2, <1>4, <2>1, <3>2
    <3> QED
      BY <1>2, <1>4, <2>1, <2>2, <3>3 DEF Heap
  <2>3. CASE at' = [at EXCEPT ![t] = "done"] /\ UNCHANGED heap
    <3>1. Busy' = Busy
      BY <1>1, <1>5, <2>1, <2>3 DEF InCall, Typed
    <3> QED
      BY <1>6, <2>1, <2>3, <3>1
  <2> QED
    BY <1>9, <2>2, <2>3 DEF publish
<1>10. ASSUME NEW t \in Threads, encode_publish_free(t)
      PROVE  Heap'
  <2>1. /\ t \in Publishers /\ at[t] = "hashed" /\ t \in Busy
        /\ at' = [at EXCEPT ![t] = "done"] /\ heap' = heap - 1
        /\ UNCHANGED <<sub, copy, refused>>
    BY <1>10 DEF encode_publish_free, locals, Busy, InCall, Place
  <2>2. Busy' = Busy \ {t}
    BY <1>1, <2>1 DEF Busy, InCall, Typed
  <2>3. Cardinality(Busy') = Cardinality(Busy) - 1
    BY <1>2, <2>1, <2>2, FS_RemoveElement
  <2>4. Held' = Held - 1
    BY <1>1, <1>2, <1>4, <2>1, <2>3
  <2> QED
    BY <1>2, <1>4, <2>1, <2>4 DEF Heap
<1>11. CASE subscribe \/ unsubscribe
  <2>1. UNCHANGED <<at, copy, refused>>
    BY <1>11 DEF subscribe, unsubscribe, rest
  <2>2. Busy' = Busy
    BY <1>5, <2>1
  <2>3. Held' - Held = Subs' - Subs
    BY <1>1, <1>2, <1>4, <2>1, <2>2
  <2>4. heap' - heap = Subs' - Subs /\ heap' \in Int
    BY <1>11 DEF subscribe, unsubscribe, Heap
  <2>5. Held \in Int /\ Held' \in Int
    BY <1>1, <1>2, <1>4, <2>1, <2>2
  <2> HIDE DEF Subs
  <2> QED
    BY <2>1, <2>3, <2>4, <2>5 DEF Heap
<1>12. CASE Lose \/ UNCHANGED vars
  <2>1. UNCHANGED <<at, heap, sub, copy, refused>>
    BY <1>12 DEF Lose, vars, rest
  <2> QED
    BY <1>5, <1>6, <2>1
<1>13. CASE handle
  <2>1. UNCHANGED <<heap, sub, copy, refused>> /\ at' = [at EXCEPT ![Dispatcher] = "get_hash"]
    BY <1>13 DEF handle, rest
  <2>2. Busy' = Busy
    BY <1>1, <1>5, <2>1 DEF Typed
  <2> QED
    BY <1>6, <2>1, <2>2
<1>14. CASE destroy
  <2>1. /\ copy # <<>> /\ copy' = <<>> /\ UNCHANGED <<at, sub, refused>>
        /\ heap' = heap - CleanupBlocks(chan.to, chan.want, copy[1]) - 1
    BY <1>14 DEF destroy, rest
  <2>2. Busy' = Busy
    BY <1>5, <2>1
  <2>3. Copies' = 0 /\ Subs' = Subs /\ Copies = 1 + CleanupBlocks(chan.to, chan.want, copy[1])
    BY <1>1, <2>1
  <2>5. CleanupBlocks(chan.to, chan.want, copy[1]) \in Nat
    BY <1>3, <2>1
  <2>6. Held' = Held - Copies /\ heap' = heap - Copies /\ heap \in Int
    <3>1. heap \in Int
      BY DEF Heap
    <3>2. Cardinality(Busy') = Cardinality(Busy)
      BY <2>2
    <3> HIDE DEF Copies, Subs
    <3>3. Held' = Cardinality(Busy) + Subs
      BY <1>2, <1>4, <2>3, <3>2
    <3> QED
      BY <1>2, <1>4, <2>1, <2>3, <2>5, <3>1, <3>3
  <2>4. Held \in Int
    BY <1>2, <1>4
  <2> HIDE DEF Copies
  <2> QED
    BY <1>4, <2>1, <2>4, <2>6 DEF Heap
<1>15. CASE handler_stub
  <2> DEFINE d == Decode(chan.to, chan.want, hash[Dispatcher], cur.bytes)
             r == [packet |-> cur, late |-> Dispatcher \in early, blocks |-> d.blocks]
  <2>1. /\ at[Dispatcher] = "hashed" /\ (Refuses \/ Hands) /\ UNCHANGED sub
        /\ at' = [at EXCEPT ![Dispatcher] = "idle"]
    BY <1>15, StubOutcomes DEF Heap, handler_stub, rest
  <2>2. Busy' = Busy
    BY <1>1, <1>5, <2>1 DEF Typed
  <2>3. CASE Refuses
    <3>1. /\ refused' = refused \cup {r} /\ UNCHANGED copy
          /\ heap' = heap + r.blocks
      BY <2>3 DEF Refuses
    <3>2. r.blocks \in Nat
      BY <2>1, Decodes
    <3> HIDE DEF r, d
    <3>3. Held' = Held /\ Held \in Int
      BY <1>1, <1>2, <1>4, <2>1, <2>2, <3>1
    <3>4. (\A x \in refused' : x.blocks = 0) =>
            r.blocks = 0 /\ \A x \in refused : x.blocks = 0
      BY <3>1
    <3> QED
      BY <3>1, <3>2, <3>3, <3>4 DEF Heap
  <2>4. CASE Hands
    <3>1. /\ d.ok /\ UNCHANGED refused
          /\ \/ copy' = copy /\ heap' = heap
             \/ /\ copy = <<>> /\ copy' = <<d.val>>
                /\ heap' = heap + 1 + CleanupBlocks(chan.to, chan.want, d.val)
      BY <2>4 DEF Hands
    <3>2. CleanupBlocks(chan.to, chan.want, d.val) \in Nat
      BY <2>1, <3>1, Decodes
    <3> HIDE DEF d, r
    <3>3. <<d.val>> # <<>> /\ <<d.val>>[1] = d.val
      OBVIOUS
    <3>4. Copies' - Copies = heap' - heap /\ heap \in Int /\ heap' \in Int /\ Copies' \in Int
      BY <1>1, <1>4, <3>1, <3>2, <3>3 DEF Heap
    <3>5. Subs' = Subs
      BY <2>1
    <3> HIDE DEF Copies, Subs
    <3>6. Held' - Held = Copies' - Copies /\ Held \in Int /\ Held' \in Int
      BY <1>2, <1>4, <2>2, <3>4, <3>5
    <3> QED
      BY <3>1, <3>4, <3>6 DEF Heap
  <2> QED
    BY <2>1, <2>3, <2>4
<1> QED
  BY <1>7, <1>9, <1>10, <1>11, <1>12, <1>13, <1>14, <1>15, <1>8 DEF Next

-----------------------------------------------------------------------------
(* The theorems.                                                           *)

\* The invariant.
LEMMA Initially == Init /\ CodecRight => IInv
<1> SUFFICES ASSUME Init, CodecRight PROVE IInv
  OBVIOUS
<1> USE DEF Init
<1>1. Typed
  <2>1. ZeroHash \in Known
    BY DEF Known
  <2> QED
    BY <2>1 DEF Typed, Programs, Place
<1>2. Race /\ Hashed
  BY StaticsIs DEF Race, Hashed, Programs
<1>3. Publishers \subseteq Threads /\ Dispatcher \in Threads
  BY Threading
<1>4. UnderWay /\ Ends
  BY <1>3 DEF UnderWay, Ends, HandedOver, InCall
<1>5. Heap
  <2>1. Busy = {}
    BY <1>3 DEF Busy, InCall
  <2> QED
    BY <2>1, FS_EmptySet DEF Heap, Held
<1> QED
  BY <1>1, <1>2, <1>4, <1>5 DEF IInv

LEMMA Inductive == IInv /\ [Next]_vars => IInv'
<1> SUFFICES ASSUME IInv, [Next]_vars PROVE IInv'
  OBVIOUS
<1>1. CodecRight'
  BY ChanStays, CodecStays DEF IInv
<1> QED
  BY <1>1, TypedStays, RaceHolds, UnderWayStays, EndsStay, HeapHolds DEF IInv

LEMMA Invariant == Spec /\ CodecRight => []IInv
BY Initially, Inductive, PTL DEF Spec

\* What a user's handler is given is the whole message that was published, however
\* many threads race for the fingerprint and whatever the network does; the one
\* exception is a packet of another type, when the thread that published it and
\* the handler both met the race (X_publish, X_handler_stub).
THEOREM HandsOverWhole == Spec /\ CodecRight => []HandedOver
<1>1. IInv => HandedOver
  BY DEF IInv, Ends
<1> QED
  BY <1>1, Invariant, PTL

\* No encode fails for want of room, and the packets have the size that either
\* language computes (X_publish, X_encoded_size).
THEOREM BuffersFit == Spec /\ CodecRight => []FitsBuffer
<1>1. IInv => FitsBuffer
  <2> SUFFICES ASSUME IInv PROVE FitsBuffer
    OBVIOUS
  <2>1. ASSUME NEW p \in wire, NEW lang \in Languages
        PROVE  Len(p.bytes) = EncodedSize(lang, chan.type, p.msg)
    <3>1. PICK sent \in Sent : p.bytes = Encoded(p.msg, sent)
      BY DEF IInv, UnderWay, Packet
    <3> QED
      BY <3>1 DEF IInv, UnderWay, Packet, CodecRight, EncodesWhole
  <2>2. Publishers \subseteq Threads
    BY Threading DEF IInv, Typed
  <2> QED
    BY <2>1, <2>2 DEF IInv, Ends, FitsBuffer
<1> QED
  BY <1>1, Invariant, PTL

\* A whole message of the type is refused only if a thread read the fingerprint
\* while another of its program was computing it for the first time
\* (X_get_hash), for any number of threads.
THEOREM OnlyTheRaceRefuses == Spec /\ CodecRight => []RefusalExplained
<1>1. IInv => RefusalExplained
  BY DEF IInv, Ends, Refused, RefusalExplained
<1> QED
  BY <1>1, Invariant, PTL

\* With nothing in progress every block has been given back, except those of
\* messages cut short after the fingerprint or refused where both sides met the
\* race for two types, and no other message costs any
\* (X_publish, X_handler_stub, X_decode_cleanup, X_copy, X_destroy).
THEOREM BlocksGivenBack == Spec /\ CodecRight => []HeapBalanced
<1>1. IInv => HeapBalanced
  <2> SUFFICES ASSUME IInv PROVE HeapBalanced
    OBVIOUS
  <2>1. Publishers \subseteq Threads
    BY Threading DEF IInv, Typed
  <2>2. Cardinality(Busy) \in Nat
    BY BusyFinite DEF IInv, Typed
  <2>3. copy # <<>> => CleanupBlocks(chan.to, chan.want, copy[1]) \in Nat
    BY DEF IInv, Ends
  <2>4. heap >= 0
    BY <2>2, <2>3 DEF IInv, Heap, Held
  <2>5. ASSUME Quiet, \A r \in refused : ~MayCost(r)
        PROVE  heap = 0
    <3>1. Busy = {}
      BY <2>1, <2>5 DEF Quiet, Busy, InCall
    <3>2. Held = 0
      BY <2>5, <3>1, FS_EmptySet DEF Quiet, Held
    <3>3. \A r \in refused : r.blocks = 0
      <4> SUFFICES ASSUME NEW r \in refused PROVE r.blocks = 0
        OBVIOUS
      <4>1. Refused(r)
        BY DEF IInv, Ends
      <4>2. ~(r.blocks > 0)
        BY <2>5, <4>1 DEF Refused
      <4> QED
        BY <4>1, <4>2 DEF Refused
    <3> QED
      BY <3>2, <3>3 DEF IInv, Heap
  <2>6. \A r \in refused : r.blocks > 0 => MayCost(r)
    BY DEF IInv, Ends, Refused
  <2> QED
    BY <2>4, <2>5, <2>6 DEF HeapBalanced
<1> QED
  BY <1>1, Invariant, PTL
=============================================================================
