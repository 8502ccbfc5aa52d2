-------------------------------- MODULE Wire --------------------------------
(***************************************************************************)
(* The structured-clone stream of one record as the decoders see it.       *)
(*                                                                         *)
(* A token is one tag of the format with the payload that follows it: a    *)
(* whole string, number, header or count is one token, and "pad" is a 0x00 *)
(* alignment byte.  A decoded value is a record with one field that names  *)
(* its type, so that values of two types differ:                           *)
(*   [str |-> s], [num |-> n], [date |-> n], [bool |-> b], [null |-> 0],   *)
(*   [undef |-> 0], [big |-> n], [bytes |-> n], [view |-> n],              *)
(*   [blob |-> n], [regexp |-> s],                                         *)
(*   [obj |-> seq of <<key, value>>],                                      *)
(*   [arr |-> items, props |-> seq of <<key, value>>],                     *)
(*   [loop |-> i]: a reference to the i-th receiver while it is still open *)
(*                                                                         *)
(* The module also holds the writer, V8's serializer, which is external to *)
(* the repository.  A term to be written is a value as above, or           *)
(*   [at |-> x]: the shared object Shared[x], where it is met first;       *)
(*   [again |-> x]: a reference to it, where it is met after that;         *)
(*   [wide |-> s], [utf |-> s]: the other string encodings;                *)
(*   [boxed |-> s]: a String object; [sparse |-> n, slots |-> pairs],      *)
(*   [map |-> pairs], [set |-> items].                                     *)
(***************************************************************************)
EXTENDS Integers, SequencesExt

Eager(f) == <<>> @@ f            \* f itself; TLC computes it once, not at each use

CONSTANT Shared     \* the objects that terms share, by name

Is(v, type) == type \in DOMAIN v
Str(s) == [str |-> s]
Num(n) == [num |-> n]
Yes == [bool |-> TRUE]
No == [bool |-> FALSE]
Null == [null |-> 0]
Undefined == [undef |-> 0]
Obj(pairs) == [obj |-> pairs]
Arr(items) == [arr |-> items, props |-> <<>>]

-----------------------------------------------------------------------------
(* The writer.  V8 gives every receiver the next id as it is entered; the  *)
(* token that begins a shared object carries its name, a reference the     *)
(* name until the ids are known.                                           *)

RECURSIVE Tokens(_)
Joined(terms) == FlattenSeq([i \in DOMAIN terms |-> Tokens(terms[i])])
JoinedPairs(pairs) ==
  FlattenSeq([i \in DOMAIN pairs |-> Tokens(pairs[i][1]) \o Tokens(pairs[i][2])])
Named(pairs) == [i \in DOMAIN pairs |-> <<Str(pairs[i][1]), pairs[i][2]>>]

Tokens(v) ==
  CASE Is(v, "at")    -> LET ts == Tokens(Shared[v.at])
                         IN  <<ts[1] @@ [shared |-> v.at]>> \o Tail(ts)
    [] Is(v, "again") -> <<[t |-> "^", to |-> v.again]>>
    [] Is(v, "str")   -> <<[t |-> "str1", s |-> v.str]>>
    [] Is(v, "wide")  -> <<[t |-> "pad"], [t |-> "c", s |-> v.wide]>>
    [] Is(v, "utf")   -> <<[t |-> "S", s |-> v.utf]>>
    [] Is(v, "boxed") -> <<[t |-> "s"], [t |-> "str1", s |-> v.boxed]>>
    [] Is(v, "num")   -> <<[t |-> IF v.num < 0 THEN "I" ELSE "U", n |-> v.num]>>
    [] Is(v, "date")  -> <<[t |-> "D", n |-> v.date]>>
    [] Is(v, "bool")  -> <<[t |-> IF v.bool THEN "T" ELSE "F"]>>
    [] Is(v, "null")  -> <<[t |-> "0"]>>
    [] Is(v, "undef") -> <<[t |-> "_"]>>
    [] Is(v, "big")   -> <<[t |-> "Z", n |-> v.big]>>
    [] Is(v, "bytes") -> <<[t |-> "B", n |-> v.bytes]>>
    [] Is(v, "blob")  -> <<[t |-> "host", n |-> v.blob]>>
    [] Is(v, "obj")   -> <<[t |-> "o"]>> \o JoinedPairs(Named(v.obj)) \o <<[t |-> "{"]>>
    [] Is(v, "arr")   -> <<[t |-> "A", n |-> Len(v.arr)]>> \o Joined(v.arr)
                           \o JoinedPairs(Named(v.props)) \o <<[t |-> "$"]>>
    [] Is(v, "sparse") -> <<[t |-> "a", n |-> v.sparse]>> \o JoinedPairs(v.slots) \o <<[t |-> "@"]>>
    [] Is(v, "map")   -> <<[t |-> ";"]>> \o JoinedPairs(v.map) \o <<[t |-> ":"]>>
    [] Is(v, "set")   -> <<[t |-> "'"]>> \o Joined(v.set) \o <<[t |-> ","]>>

Receivers == {"o", "A", "a", ";", "'", "D", "s", "B", "host"}
IdOf(toks, x) ==
  LET first == CHOOSE i \in DOMAIN toks : "shared" \in DOMAIN toks[i] /\ toks[i].shared = x
  IN  Cardinality({i \in 1..(first - 1) : toks[i].t \in Receivers})

(* Every value sits in a Blink and a V8 envelope. *)
Envelope == <<[t |-> "ff"], [t |-> "fe"], [t |-> "trailer"], [t |-> "ff"]>>
Stream(v) ==
  LET toks == Tokens(v)
  IN  Envelope \o [i \in DOMAIN toks |->
        IF toks[i].t = "^" THEN [t |-> "^", n |-> IdOf(toks, toks[i].to)] ELSE toks[i]]

(* What the application put in, as a decoded value. *)
RECURSIVE Meant(_)
MeantPairs(pairs) == [i \in DOMAIN pairs |-> <<pairs[i][1], Meant(pairs[i][2])>>]
KeyText(v) == IF Is(v, "num") THEN ToString(v.num) ELSE v.str
Meant(v) ==
  CASE Is(v, "at")     -> Meant(Shared[v.at])
    [] Is(v, "again")  -> Meant(Shared[v.again])
    [] Is(v, "wide")   -> Str(v.wide)
    [] Is(v, "utf")    -> Str(v.utf)
    [] Is(v, "boxed")  -> Str(v.boxed)
    [] Is(v, "obj")    -> Obj(MeantPairs(v.obj))
    [] Is(v, "arr")    -> [arr |-> [i \in DOMAIN v.arr |-> Meant(v.arr[i])],
                           props |-> MeantPairs(v.props)]
    [] Is(v, "sparse") ->
         Arr([i \in 1..v.sparse |->
               IF \E j \in DOMAIN v.slots : v.slots[j][1].num = i - 1
               THEN Meant(v.slots[CHOOSE j \in DOMAIN v.slots : v.slots[j][1].num = i - 1][2])
               ELSE Undefined])
    [] Is(v, "map")    -> Obj([i \in DOMAIN v.map |->
                                <<KeyText(v.map[i][1]), Meant(v.map[i][2])>>])
    [] Is(v, "set")    -> Arr([i \in DOMAIN v.set |-> Meant(v.set[i])])
    [] OTHER           -> v
=============================================================================
