----------------------------- MODULE LcmChannel -----------------------------
(***************************************************************************)
(* One LCM channel between programs that use the generated message types:  *)
(* threads that publish, a network that may lose, reorder or truncate, and *)
(* a program that subscribes, handles what arrives and unsubscribes.       *)
(*                                                                         *)
(* The fingerprint of a C type is computed on first use into two static    *)
(* variables without a lock (__X_get_hash), by every thread of the process *)
(* that publishes or handles the type: a data race, so the two stores may  *)
(* be seen in either order.  The C++ classes keep it in a function-local   *)
(* static, which the language initialises once.                            *)
(*                                                                         *)
(* What the functions of a type do to bytes is LcmCodec's; here they are   *)
(* parameters, of which CodecRight says what the channel relies on.        *)
(***************************************************************************)
EXTENDS Integers, Sequences, FiniteSets

CONSTANTS
  Channels,   \* [type, from, threads, want, to, users, shared]: the type
              \* published, in which language, by how many threads; the type
              \* subscribed to, in which language, and how many more threads
              \* of that program use it; whether all are in one process
  Messages,   \* by type name, the messages published
  MaxThreads, \* bound: the threads besides the one that handles messages
  HashOf,     \* the eight bytes of a fingerprint, by language and type
  ZeroHash,   \* those of a static variable before the first use
  Encode(_, _, _, _, _), EncodeFails,         \* encode and its failure
  EncodedSize(_, _, _), Decode(_, _, _, _),   \* encoded_size, decode
  CleanupBlocks(_, _, _), CloneBlocks(_, _, _)   \* blocks freed and taken

VARIABLES
  chan,       \* the channel, chosen once
  computed, fingerprint,   \* __X_hash_computed and __X_hash, per process
  at, hash, msg,           \* per thread: place, value of get_hash, message
  wire,       \* packets under way: [bytes, msg, early, by]
  sub,        \* the subscription: "none", "held" or "gone"
  cur,        \* the packet the handler stub works on
  copy,       \* what the user's handler has copied, <<>> or <<message>>
  heap,       \* blocks the generated code holds
  status,     \* per publisher: what X_publish has returned
  early,      \* history: a thread read __X_hash while another was computing it
  handed,     \* history: [packet, val, late] given to the user's handler
  refused     \* history: packets the stub returned from with an error
vars == <<chan, computed, fingerprint, at, hash, msg, wire, sub, cur, copy, heap,
          status, early, handed, refused>>

Languages == {"C", "C++"}
Publishers == 1..chan.threads
Dispatcher == 0
Threads == 0..MaxThreads
Users == (chan.threads + 1)..(chan.threads + chan.users)
Receivers == {Dispatcher} \cup Users
Lang(t) == IF t \in Receivers THEN chan.to ELSE chan.from
TypeOf(t) == IF t \in Receivers THEN chan.want ELSE chan.type
Nothing == [bytes |-> <<>>]

\* The static variables a thread uses: every type has its own in every process.
Statics(t) ==
  IF t \in Receivers /\ ~(chan.shared /\ chan.type = chan.want) THEN "receiver" ELSE "sender"

ASSUME ChannelAssumption ==
  /\ MaxThreads \in Nat
  /\ \A c \in Channels :
       /\ c.type \in DOMAIN Messages /\ c.want \in DOMAIN Messages
       /\ c.from \in Languages /\ c.to \in Languages
       /\ c.threads \in Nat \ {0} /\ c.users \in Nat /\ c.threads + c.users <= MaxThreads
       /\ c.shared \in BOOLEAN

Init ==
  /\ chan \in Channels
  /\ computed = [p \in {"sender", "receiver"} |-> FALSE]
  /\ fingerprint = [p \in {"sender", "receiver"} |-> ZeroHash]
  /\ at = [t \in Threads |-> "idle"] /\ hash = [t \in Threads |-> ZeroHash]
  /\ msg = [t \in Threads |-> Nothing]
  /\ wire = {} /\ sub = "none" /\ cur = Nothing /\ copy = <<>>
  /\ heap = 0 /\ status = [t \in Threads |-> "none"]
  /\ early = {} /\ handed = {} /\ refused = {}

-----------------------------------------------------------------------------
(* __X_get_hash, by any thread, and getHash of the C++ classes.            *)

others == <<chan, msg, wire, sub, cur, copy, heap, status, handed, refused>>
Computing(t) == \E u \in Threads \ {t} :
                  Statics(u) = Statics(t) /\ at[u] \in {"compute", "flag_set", "hash_set"}

test_computed(t) ==
  /\ at[t] = "get_hash" /\ Lang(t) = "C"
  /\ at' = [at EXCEPT ![t] = IF computed[Statics(t)] THEN "read_hash" ELSE "compute"]
  /\ UNCHANGED <<others, computed, fingerprint, hash, early>>

store_hash(t) ==
  /\ at[t] \in {"compute", "flag_set"}
  /\ fingerprint' = [fingerprint EXCEPT ![Statics(t)] = HashOf["C"][TypeOf(t)]]
  /\ at' = [at EXCEPT ![t] = IF @ = "compute" THEN "hash_set" ELSE "read_hash"]
  /\ UNCHANGED <<others, computed, hash, early>>

store_computed(t) ==
  /\ at[t] \in {"compute", "hash_set"}
  /\ computed' = [computed EXCEPT ![Statics(t)] = TRUE]
  /\ at' = [at EXCEPT ![t] = IF @ = "compute" THEN "flag_set" ELSE "read_hash"]
  /\ UNCHANGED <<others, fingerprint, hash, early>>

read_hash(t) ==
  /\ at[t] = "read_hash"
  /\ hash' = [hash EXCEPT ![t] = fingerprint[Statics(t)]]
  /\ early' = IF Computing(t) THEN early \cup {t} ELSE early \ {t}
  /\ at' = [at EXCEPT ![t] = "hashed"]
  /\ UNCHANGED <<others, computed, fingerprint>>

getHash(t) ==
  /\ at[t] = "get_hash" /\ Lang(t) = "C++"
  /\ hash' = [hash EXCEPT ![t] = HashOf["C++"][TypeOf(t)]]
  /\ at' = [at EXCEPT ![t] = "hashed"]
  /\ UNCHANGED <<others, computed, fingerprint, early>>

\* Another thread of the receiving program publishes or handles a message of the
\* type, on a channel of its own: here it only asks for the fingerprint.
use(t) ==
  /\ t \in Users
  /\ \/ at[t] = "idle" /\ at' = [at EXCEPT ![t] = "get_hash"]
     \/ at[t] = "hashed" /\ at' = [at EXCEPT ![t] = "done"]
  /\ UNCHANGED <<others, computed, fingerprint, hash, early>>

-----------------------------------------------------------------------------
(* X_publish: a buffer of encoded_size bytes, encode, lcm_publish, free.   *)

locals == <<chan, computed, fingerprint, hash, sub, cur, copy, early, handed, refused>>

publish(t) ==
  /\ t \in Publishers /\ at[t] = "idle"
  /\ \E m \in Messages[chan.type] : msg' = [msg EXCEPT ![t] = m]
  /\ \/ heap' = heap + 1 /\ at' = [at EXCEPT ![t] = "get_hash"] /\ UNCHANGED status
     \/ \* malloc fails
        /\ status' = [status EXCEPT ![t] = "no memory"]
        /\ at' = [at EXCEPT ![t] = "done"] /\ UNCHANGED heap
  /\ UNCHANGED <<locals, wire>>

encode_publish_free(t) ==
  /\ t \in Publishers /\ at[t] = "hashed"
  /\ LET size == EncodedSize(Lang(t), chan.type, msg[t])
         buf == Encode(Lang(t), chan.type, hash[t], msg[t], size)
     IN  /\ \E result \in IF buf = EncodeFails THEN {"encode failed"}
                          ELSE {"published", "send failed"} :
              status' = [status EXCEPT ![t] = result]
         /\ wire' = IF status'[t] # "published" THEN wire
                    ELSE wire \cup {[bytes |-> buf, msg |-> msg[t],
                                     early |-> t \in early, by |-> t]}
  /\ heap' = heap - 1
  /\ at' = [at EXCEPT ![t] = "done"]
  /\ UNCHANGED <<locals, msg>>

-----------------------------------------------------------------------------
(* X_subscribe and X_unsubscribe.  The result of malloc is not looked at   *)
(* in subscribe; that it fails is left out.                                *)

rest == <<chan, computed, fingerprint, hash, msg, status, early>>

subscribe ==
  /\ sub = "none" /\ at[Dispatcher] = "idle"
  /\ \/ sub' = "held" /\ heap' = heap + 1
     \/ \* lcm_subscribe returns NULL: free, return NULL
        UNCHANGED <<sub, heap>>
  /\ UNCHANGED <<rest, at, wire, cur, copy, handed, refused>>

unsubscribe ==
  /\ sub = "held" /\ at[Dispatcher] = "idle"
  /\ \/ sub' = "gone" /\ heap' = heap - 1
     \/ \* lcm_unsubscribe fails: -1, the record stays
        UNCHANGED <<sub, heap>>
  /\ UNCHANGED <<rest, at, wire, cur, copy, handed, refused>>

-----------------------------------------------------------------------------
(* The network, and lcm_handle() calling X_handler_stub with a packet.     *)

Lose ==
  /\ \E p \in wire : wire' = wire \ {p}
  /\ UNCHANGED <<rest, at, sub, cur, copy, heap, handed, refused>>

\* cut: the bytes of the packet that have arrived.
handle ==
  /\ sub = "held" /\ at[Dispatcher] = "idle"
  /\ \E p \in wire : \E cut \in 0..Len(p.bytes) :
       /\ wire' = wire \ {p}
       /\ cur' = [bytes |-> SubSeq(p.bytes, 1, cut), whole |-> cut = Len(p.bytes),
                   msg |-> p.msg, early |-> p.early]
  /\ at' = [at EXCEPT ![Dispatcher] = "get_hash"]
  /\ UNCHANGED <<rest, sub, copy, heap, handed, refused>>

\* An error of decode ends the stub: what decode has allocated stays.  Else
\* the user's handler runs, may take a copy, and decode_cleanup follows.
handler_stub ==
  /\ at[Dispatcher] = "hashed"
  /\ LET d == Decode(chan.to, chan.want, hash[Dispatcher], cur.bytes)
         after == heap + d.blocks - CleanupBlocks(chan.to, chan.want, d.val)
     IN  \/ /\ ~d.ok
            /\ refused' = refused \cup
                 {[packet |-> cur, late |-> Dispatcher \in early, blocks |-> d.blocks]}
            /\ heap' = heap + d.blocks
            /\ UNCHANGED <<copy, handed>>
         \/ /\ d.ok
            /\ handed' = handed \cup
                 {[packet |-> cur, late |-> Dispatcher \in early, val |-> d.val]}
            /\ \/ heap' = after /\ UNCHANGED copy
               \/ \* X_copy
                  /\ copy = <<>> /\ chan.to = "C"
                  /\ copy' = <<d.val>>
                  /\ heap' = after + 1 + CloneBlocks(chan.to, chan.want, d.val)
            /\ UNCHANGED refused
  /\ cur' = Nothing
  /\ at' = [at EXCEPT ![Dispatcher] = "idle"]
  /\ UNCHANGED <<rest, wire, sub>>

destroy ==
  /\ copy # <<>>
  /\ heap' = heap - CleanupBlocks(chan.to, chan.want, copy[1]) - 1
  /\ copy' = <<>>
  /\ UNCHANGED <<rest, at, wire, sub, cur, handed, refused>>

get_hash(t) == \/ test_computed(t) \/ store_hash(t) \/ store_computed(t)
               \/ read_hash(t) \/ getHash(t)
Next ==
  \/ \E t \in Threads : get_hash(t) \/ use(t) \/ publish(t) \/ encode_publish_free(t)
  \/ subscribe \/ unsubscribe \/ Lose \/ handle \/ handler_stub \/ destroy

Spec == Init /\ [][Next]_vars

-----------------------------------------------------------------------------
\* The fingerprints of different types differ, those of the two languages do
\* not, and none is what an unset variable holds (X_hash_recursive).
HashesDiffer ==
  \A from, to \in Languages :
    /\ HashOf[from][chan.type] = HashOf[to][chan.want] <=> chan.type = chan.want
    /\ \A type \in {chan.type, chan.want} : HashOf[from][type] # ZeroHash

\* The encoding of message m under a fingerprint, in the buffer X_publish has.
Sent == {ZeroHash, HashOf[chan.from][chan.type]}
Encoded(m, sent) ==
  Encode(chan.from, chan.type, sent, m, EncodedSize(chan.from, chan.type, m))

\* The encoding has the size that either language computes, and a copy takes
\* the blocks that cleanup gives back (X_encode, X_encoded_size, X_copy).
EncodesWhole(m, bytes) ==
  /\ bytes # EncodeFails /\ bytes \in Seq(0..255)
  /\ \A lang \in Languages :
       /\ Len(bytes) = EncodedSize(lang, chan.type, m)
       /\ CleanupBlocks(lang, chan.type, m) \in Nat
       /\ CloneBlocks(lang, chan.type, m) = CleanupBlocks(lang, chan.type, m)

\* A decode that compares with another fingerprint takes nothing from the heap
\* and fails.  One of the type succeeds on the whole encoding, on no part of it,
\* and gives the message back; of another type it can succeed only if both sides
\* have zero, with whatever message.  Cleanup gives back the blocks of what was
\* decoded, and a copy takes as many (X_decode).
Compared == {HashOf[chan.to][chan.want]} \cup
              IF chan.type = chan.want \/ chan.users > 0 THEN {ZeroHash} ELSE {}
DecodesWhole(m, sent, bytes) ==
  \A compared \in Compared, cut \in 0..Len(bytes) :
    LET d == Decode(chan.to, chan.want, compared, SubSeq(bytes, 1, cut))
    IN  /\ d.blocks \in Nat
        /\ sent # compared => ~d.ok
        /\ sent # compared \/ cut <= 8 => d.blocks = 0
        /\ d.ok => /\ d.blocks = CleanupBlocks(chan.to, chan.want, d.val)
                   /\ d.blocks = CloneBlocks(chan.to, chan.want, d.val)
        /\ chan.type = chan.want => /\ d.ok <=> sent = compared /\ cut = Len(bytes)
                                    /\ d.ok => d.val = m

\* What the channel relies on, of the types that were chosen for it.
CodecRight ==
  \A m \in Messages[chan.type], sent \in Sent :
    /\ HashesDiffer
    /\ EncodesWhole(m, Encoded(m, sent))
    /\ DecodesWhole(m, sent, Encoded(m, sent))

\* The functions that encode, size, decode and clean up a message agree, for
\* every part of it that may arrive.  The channel never changes, so this is said
\* where nothing has been published or subscribed yet.
CodecAgrees == (sub = "none" /\ \A t \in Threads : at[t] = "idle") => CodecRight

\* The race for the fingerprint on both sides at once, for two types: the packet
\* carries zero for one, and the stub expects zero for the other.
Confused(packet, late) == chan.type # chan.want /\ packet.early /\ late

\* What a user's handler is given is a message of its type that was
\* published, field for field, whichever language either side is written in,
\* and never part of one; the one exception is a packet of another type when
\* both sides met the race (X_encode, X_decode, encode, decode, X_get_hash).
HandedOver ==
  \A h \in handed :
    \/ chan.type = chan.want /\ h.packet.whole /\ h.val = h.packet.msg
    \/ Confused(h.packet, h.late)

\* The buffer X_publish allocates holds exactly what encode writes, so encode
\* never fails there, and the C++ size of the same message is the same
\* (X_encoded_size, getEncodedSize).
FitsBuffer ==
  /\ \A t \in Publishers : status[t] # "encode failed"
  /\ \A p \in wire, lang \in Languages :
       Len(p.bytes) = EncodedSize(lang, chan.type, p.msg)

\* A whole message of the subscribed type is refused only when a thread on
\* one side met another in the middle of computing the fingerprint for the
\* first time (X_get_hash).
RefusalExplained ==
  \A r \in refused :
    (r.packet.whole /\ chan.type = chan.want) => (r.packet.early \/ r.late)

\* With nothing in progress the heap is as it was, except for what decoding
\* had allocated when it failed: of a message cut short after its fingerprint, or
\* of one of another type when both sides met the race (X_publish,
\* X_handler_stub, X_decode_cleanup, X_destroy).
Quiet == /\ \A t \in Threads : at[t] \in {"idle", "done"}
         /\ sub # "held" /\ copy = <<>>
MayCost(r) == \/ ~r.packet.whole /\ Len(r.packet.bytes) > 8
              \/ Confused(r.packet, r.late)
HeapBalanced ==
  /\ heap >= 0
  /\ (Quiet /\ \A r \in refused : ~MayCost(r)) => heap = 0
  /\ \A r \in refused : r.blocks > 0 => MayCost(r)

\* "handler: the callback function invoked by LCM when a message is
\* received" (lcmtest_node_t.h): a whole message of the type that has been
\* received is not refused.
WholeMessageHanded ==
  \A r \in refused : ~(r.packet.whole /\ chan.type = chan.want)
=============================================================================
