------------------------------- MODULE Clone -------------------------------
(***************************************************************************)
(* The TypeScript decoder, format/chromium/structured-clone.ts.  A reader  *)
(* is [buf, pos, objects, v, ok]: the tokens, the next one, the receivers  *)
(* in the order of their ids, the value read last, and whether no error    *)
(* has been thrown.  objects[i] is [loop |-> i] while receiver i is open   *)
(* (a reference then closes a cycle) and its value once it is complete.    *)
(* Left out: the trace, and the lenient option, which no caller sets.      *)
(***************************************************************************)
EXTENDS Wire

Throw(r) == [r EXCEPT !.ok = FALSE]
Return(r, v) == [r EXCEPT !.v = v]
TagAt(r, i) == IF i \in DOMAIN r.buf THEN r.buf[i].t ELSE "end"

(* 0x00 is never a tag, so padding is skipped wherever a tag is expected. *)
SkipPadding(r) ==
  [r EXCEPT !.pos = CHOOSE i \in r.pos..(Len(r.buf) + 1) :
                      /\ TagAt(r, i) # "pad"
                      /\ \A j \in r.pos..(i - 1) : TagAt(r, j) = "pad"]

Register(r, v) == [r EXCEPT !.objects = Append(@, v)]
OnEntry(r) == Register(r, [loop |-> Len(r.objects) + 1])
Complete(r, id, v) == IF r.ok THEN [r EXCEPT !.objects[id] = v, !.v = v] ELSE r

(* The root is the last envelope that an object follows; a record whose    *)
(* root is no object is found past the envelope bytes.                     *)
AfterEnvelope(buf, i) ==
  LET j == IF i + 1 \in DOMAIN buf /\ buf[i + 1].t = "fe" THEN i + 3 ELSE i + 1
  IN  SkipPadding([buf |-> buf, pos |-> j]).pos
EnvelopeRoots(buf) ==
  {AfterEnvelope(buf, i) : i \in {k \in DOMAIN buf : buf[k].t = "ff"}}
FindEnvelopeRoot(buf) ==
  LET roots == {j \in EnvelopeRoots(buf) : j \in DOMAIN buf /\ buf[j].t = "o"}
  IN  IF roots = {} THEN 0 ELSE Max(roots)

SkipEnvelopePreamble(buf) ==
  LET i == SelectInSeq(buf, LAMBDA tok : tok.t \notin {"ff", "fe", "trailer", "pad"})
  IN  IF i = 0 THEN Len(buf) + 1 ELSE i

Header(buf) ==
  IF FindEnvelopeRoot(buf) > 0 THEN FindEnvelopeRoot(buf) ELSE SkipEnvelopePreamble(buf)

(* obj[key] = val: the last write wins, in the place of the first. *)
SetProp(pairs, key, val) ==
  LET i == SelectInSeq(pairs, LAMBDA p : p[1] = key)
  IN  IF i = 0 THEN Append(pairs, <<key, val>>) ELSE [pairs EXCEPT ![i] = <<key, val>>]

IsKey(v) == Is(v, "str") \/ Is(v, "num")
PropertyKey(v) ==
  CASE Is(v, "str")   -> v.str
    [] Is(v, "num")   -> ToString(v.num)
    [] Is(v, "bool")  -> ToString(v.bool)
    [] Is(v, "null")  -> "null"
    [] Is(v, "undef") -> "undefined"
    [] OTHER          -> "[object Object]"

(* arr[key] = val: an index fills its slot, past the end after holes.  The *)
(* canonical decimal strings are the indices MaxIndex bounds.              *)
MaxIndex == 9
Index(key) ==
  LET is == {i \in 0..MaxIndex : key = Num(i) \/ key = Str(ToString(i))}
  IN  IF is = {} THEN 0 ELSE 1 + (CHOOSE i \in is : TRUE)
SetElement(a, key, val) ==
  IF Index(key) = 0
  THEN [a EXCEPT !.props = SetProp(@, PropertyKey(key), val)]
  ELSE [a EXCEPT !.arr = [i \in 1..(IF Index(key) > Len(@) THEN Index(key) ELSE Len(@)) |->
                            IF i = Index(key) THEN val
                            ELSE IF i <= Len(@) THEN @[i] ELSE Undefined]]

RECURSIVE Value(_)

(* Values up to a closing tag, n of them or all. *)
RECURSIVE Values(_, _)
Values(r, n) ==
  IF n = 0 \/ ~r.ok THEN [r |-> r, vs |-> <<>>]
  ELSE LET first == Value(r)
           rest == Values(first, n - 1)
       IN  [r |-> rest.r, vs |-> <<first.v>> \o rest.vs]

(* At most n values, up to a closing tag.  Halving n keeps TLC's stack low. *)
RECURSIVE SomeUntil(_, _, _)
SomeUntil(r, end, n) ==
  LET p == SkipPadding(r)
      one == Value(p)
      half == SomeUntil(r, end, n \div 2)
      rest == SomeUntil(half.r, end, n - n \div 2)
  IN  IF ~r.ok THEN [r |-> r, vs |-> <<>>, closed |-> TRUE]
      ELSE IF n > 1
      THEN IF half.closed THEN half ELSE [rest EXCEPT !.vs = half.vs \o @]
      ELSE CASE TagAt(p, p.pos) = end   -> [r |-> [p EXCEPT !.pos = @ + 1], vs |-> <<>>, closed |-> TRUE]
             [] TagAt(p, p.pos) = "end" -> [r |-> Throw(p), vs |-> <<>>, closed |-> TRUE]
             [] OTHER -> [r |-> one, vs |-> <<one.v>>, closed |-> FALSE]
Until(r, end) == SomeUntil(r, end, Len(r.buf))

(* Keys and values alternate. *)
Pairs(vs) == [i \in 1..(Len(vs) \div 2) |-> <<vs[2*i - 1], vs[2*i]>>]

(* Mutant: an object gets its id when it is complete. *)
RegisteredLate(r) ==
  LET body == Until(r, "{")
      set(o, p) == IF IsKey(p[1]) THEN SetProp(o, PropertyKey(p[1]), p[2]) ELSE o
      value == Obj(FoldLeft(set, <<>>, Pairs(body.vs)))
  IN  IF body.r.ok THEN Register(Return(body.r, value), value) ELSE body.r

ReadObject(r) ==
  LET id == Len(r.objects) + 1
      body == Until(OnEntry(r), "{")
      set(o, p) == IF IsKey(p[1]) THEN SetProp(o, PropertyKey(p[1]), p[2]) ELSE o
  IN  Complete(body.r, id, Obj(FoldLeft(set, <<>>, Pairs(body.vs))))

AsElements(a, pairs) ==
  FoldLeft(LAMBDA b, p : IF IsKey(p[1]) THEN SetElement(b, p[1], p[2]) ELSE b, a, pairs)

DenseArray(r, n) ==
  LET id == Len(r.objects) + 1
      items == Values(OnEntry(r), n)
      props == Until(items.r, "$")
  IN  Complete(props.r, id, AsElements(Arr(items.vs), Pairs(props.vs)))

SparseArray(r, n) ==
  LET id == Len(r.objects) + 1
      body == Until(OnEntry(r), "@")
  IN  Complete(body.r, id, AsElements(Arr([i \in 1..n |-> Undefined]), Pairs(body.vs)))

ReadMap(r) ==
  LET id == Len(r.objects) + 1
      body == Until(OnEntry(r), ":")
      set(o, p) == SetProp(o, PropertyKey(p[1]), p[2])
  IN  Complete(body.r, id, Obj(FoldLeft(set, <<>>, Pairs(body.vs))))

ReadSet(r) ==
  LET id == Len(r.objects) + 1
      body == Until(OnEntry(r), ",")
  IN  Complete(body.r, id, Arr(body.vs))

ArrayBuffer(r, n) == Register(Return(r, [bytes |-> n]), [bytes |-> n])

HostObject(r, tok) ==
  IF tok.n < 0 THEN Throw(r)          \* an unknown Blink tag has no known length
  ELSE Register(Return(r, [blob |-> tok.n]), [blob |-> tok.n])

RegExp(r) == LET p == Value(r) IN Return(p, [regexp |-> p.v])

Value(r) ==
  LET p == SkipPadding(r)
      tok == p.buf[p.pos]
      q == [p EXCEPT !.pos = @ + 1]
  IN
  IF ~r.ok THEN r
  ELSE IF p.pos > Len(p.buf) THEN Throw(p)
  ELSE CASE tok.t = "_" -> Return(q, Undefined)
         [] tok.t = "0" -> Return(q, Null)
         [] tok.t \in {"T", "y"} -> Return(q, Yes)
         [] tok.t \in {"F", "x"} -> Return(q, No)
         [] tok.t \in {"I", "U", "N", "n"} -> Return(q, Num(tok.n))
         [] tok.t = "D" -> Return(q, [date |-> tok.n])
         [] tok.t \in {"Z", "z"} -> Return(q, [big |-> tok.n])
         [] tok.t = "s" -> Value(q)
         [] tok.t \in {"B", "~"} -> ArrayBuffer(q, tok.n)
         [] tok.t = "V" -> Return(q, [view |-> tok.n])
         [] tok.t \in {"str1", "c", "S"} -> Return(q, Str(tok.s))
         [] tok.t = "o" -> ReadObject(q)
         [] tok.t = "A" -> DenseArray(q, tok.n)
         [] tok.t = "a" -> SparseArray(q, tok.n)
         [] tok.t = ";" -> ReadMap(q)
         [] tok.t = "'" -> ReadSet(q)
         [] tok.t = "R" -> RegExp(q)
         [] tok.t = "^" -> Return(q, IF tok.n + 1 \in DOMAIN q.objects
                                     THEN q.objects[tok.n + 1] ELSE Undefined)
         [] tok.t = "host" -> HostObject(q, tok)
         [] OTHER -> Throw(q)

Failed == [fails |-> 0]

Deserialize(buf) ==
  LET r == Value([buf |-> buf, pos |-> Header(buf), objects |-> <<>>,
                  v |-> Undefined, ok |-> TRUE])
  IN  IF r.ok THEN r.v ELSE Failed
=============================================================================
