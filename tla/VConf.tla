-------------------------------- MODULE VConf --------------------------------
(***************************************************************************)
(* The Tizen settings interface of the MTP responder over the system's     *)
(* property service (mtp-responder/mtp_port.c, vconf_get_... and _set_...). *)
(*                                                                         *)
(* A string of the C program is what stands before the first NUL of its    *)
(* memory, and what nobody wrote holds any character, here Junk or a NUL.  *)
(***************************************************************************)
EXTENDS Integers, Sequences

CONSTANTS
  Key,               \* the keys in use, of integers and of strings alike
  Ints, IntMax,      \* bound: the integers set; INT32_MAX
  Char, MaxString,   \* bound: the characters and length of the strings set
  PointerSize        \* sizeof(const char*)

NUL == "nul"
Junk == "junk"

ASSUME VConfAssumption ==
  /\ PointerSize \in Nat /\ MaxString \in Nat
  /\ NUL \notin Char

VARIABLES
  vcStore,    \* the property service: per key <<>>, <<"int", value>>, <<"str", bytes>>
  vcAsked,    \* history: what was last set successfully, per key the same
  vcResult    \* the latest call: [call, key, ret, val]
vcVars == <<vcStore, vcAsked, vcResult>>

Strings == UNION {[1..n -> Char] : n \in 0..MaxString}
NoCall == [call |-> "none", key |-> "none", ret |-> 0, val |-> <<>>]

\* The keys that the getters answer themselves, and what they answer.  No
\* setter looks for these keys.
IntFixed == {"idle_lock", "mmc_status", "usb_status"}
StrFixed == {"device_name", "sync_partner"}
IntAnswer(k) == IF k = "usb_status" THEN 1 ELSE 0
StrAnswer(k) == <<k, NUL>>

VcInit ==
  /\ vcStore = [k \in Key |-> <<>>]
  /\ vcAsked = [k \in Key |-> <<>>]
  /\ vcResult = NoCall

\* The characters before the first NUL.
CString(mem) ==
  LET ends == {i \in DOMAIN mem : mem[i] = NUL}
      end == IF ends = {} THEN Len(mem) + 1
             ELSE CHOOSE i \in ends : \A j \in ends : i <= j
  IN  SubSeq(mem, 1, end - 1)

\* What nobody wrote.
Unwritten(n) == [1..n -> {Junk, NUL}]

-----------------------------------------------------------------------------
\* What the property service reads out of an entry: the value if it has the
\* type asked for; of the other type, whatever the service makes of it.
AsInt(entry) ==
  IF entry = <<>> THEN {IntMax} ELSE IF entry[1] = "int" THEN {entry[2]} ELSE Ints \cup {IntMax}
AsBytes(entry) ==
  IF entry = <<>> THEN {<<>>} ELSE IF entry[1] = "str" THEN {entry[2]} ELSE Strings

\* INT32_MAX is the default property_get_int32 is asked with, and the sign
\* of failure.
vconf_get_int(k) ==
  /\ \E v \in IF k \in IntFixed THEN {IntAnswer(k)} ELSE AsInt(vcStore[k]) :
       vcResult' = [call |-> "get_int", key |-> k, val |-> <<v>>,
                    ret |-> IF v = IntMax THEN -1 ELSE 0]
  /\ UNCHANGED <<vcStore, vcAsked>>

vconf_set_int(k, v) ==
  \/ /\ vcStore' = [vcStore EXCEPT ![k] = <<"int", v>>]
     /\ vcAsked' = [vcAsked EXCEPT ![k] = <<"int", v>>]
     /\ vcResult' = [call |-> "set_int", key |-> k, ret |-> 0, val |-> <<v>>]
  \/ \* property_set_int32 fails
     /\ vcResult' = [call |-> "set_int", key |-> k, ret |-> -1, val |-> <<v>>]
     /\ UNCHANGED <<vcStore, vcAsked>>

\* The buffer comes from malloc; what property_get_buffer does not write
\* stays as it was, and its result is not looked at.
vconf_get_str(k) ==
  /\ \E left \in Unwritten(1), bytes \in AsBytes(vcStore[k]) :
       LET mem == IF k \in StrFixed THEN StrAnswer(k) ELSE bytes \o left
       IN  vcResult' = [call |-> "get_str", key |-> k, ret |-> 0, val |-> CString(mem)]
  /\ UNCHANGED <<vcStore, vcAsked>>

\* property_set_buffer stores these bytes of the memory at s, or fails.
Stored(k, s, bytes) ==
  \/ /\ vcStore' = [vcStore EXCEPT ![k] = <<"str", bytes>>]
     /\ vcAsked' = [vcAsked EXCEPT ![k] = <<"str", s>>]
     /\ vcResult' = [call |-> "set_str", key |-> k, ret |-> 0, val |-> s]
  \/ /\ vcResult' = [call |-> "set_str", key |-> k, ret |-> -1, val |-> s]
     /\ UNCHANGED <<vcStore, vcAsked>>

fault_set_str(k, s) == Stored(k, s, s)      \* fault: strlen(strval) bytes

\* sizeof(strval) is the size of the pointer, not of the string.
vconf_set_str(k, s) ==
  \E left \in Unwritten(PointerSize) :
    Stored(k, s, SubSeq(s \o <<NUL>> \o left, 1, PointerSize))

VcNext ==
  \E k \in Key :
    \/ vconf_get_int(k) \/ vconf_get_str(k)
    \/ \E v \in Ints : vconf_set_int(k, v)
    \/ \E s \in Strings : vconf_set_str(k, s)

VcSpec == VcInit /\ [][VcNext]_vcVars

-----------------------------------------------------------------------------
\* What was set last is what the getter of its type reads: integers other than
\* INT32_MAX, which reads as an error, and strings shorter than a pointer, which
\* are all that vconf_set_str stores with their NUL; a setting that failed
\* changes nothing.  The keys the getters answer themselves are the exception:
\* setting them succeeds and is never read.
ReadsWhatWasSet ==
  LET k == vcResult.key
      SetAs(type) == vcAsked[k] # <<>> /\ vcAsked[k][1] = type
      asked == vcAsked[k][2]
  IN  /\ vcResult.call = "get_int" =>
           IF k \in IntFixed THEN vcResult.val = <<IntAnswer(k)>>
           ELSE SetAs("int") =>
                  vcResult.val = <<asked>> /\ (vcResult.ret = -1) = (asked = IntMax)
      /\ vcResult.call = "get_str" =>
           IF k \in StrFixed THEN vcResult.val = CString(StrAnswer(k))
           ELSE SetAs("str") /\ Len(asked) < PointerSize => vcResult.val = asked

\* "This function sets the string value of given key." (vconf_set_str): a
\* string that was set is the string that is read.
StringKept ==
  LET asked == vcAsked[vcResult.key]
  IN  (vcResult.call = "get_str" /\ asked # <<>> /\ asked[1] = "str") => vcResult.val = asked[2]
=============================================================================
