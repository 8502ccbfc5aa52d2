---------------------------- MODULE NativeClone ----------------------------
(***************************************************************************)
(* The native decoder, libzaungast-native/src/format/value.rs.  It keeps   *)
(* no values to refer to: objects holds the OFFSET of every receiver, and  *)
(* a back-reference decodes the target again from there, at depth > 0,     *)
(* where nothing is registered (the forward pass has given the ids).       *)
(* A reader is [buf, pos, objects, depth, v, ok].                          *)
(***************************************************************************)
EXTENDS Wire

(* Stands for the cap of 1024 nested re-decodes that a cycle runs into. *)
MaxResolve == 4

Err(r) == [r EXCEPT !.ok = FALSE]
Ok(r, v) == [r EXCEPT !.v = v]
TagOf(r, i) == IF i \in DOMAIN r.buf THEN r.buf[i].t ELSE "end"

Skip(r) ==
  [r EXCEPT !.pos = CHOOSE i \in r.pos..(Len(r.buf) + 1) :
                      /\ TagOf(r, i) # "pad"
                      /\ \A j \in r.pos..(i - 1) : TagOf(r, j) = "pad"]

Register(r, off) ==
  IF r.depth = 0 THEN [r EXCEPT !.objects = Append(@, off)] ELSE r

Header(buf) ==
  LET past(i) == Skip([buf |-> buf,
                       pos |-> IF TagOf([buf |-> buf], i + 1) = "fe"
                               THEN i + 3 ELSE i + 1]).pos
      roots == {j \in {past(i) : i \in {k \in DOMAIN buf : buf[k].t = "ff"}} :
                  TagOf([buf |-> buf], j) = "o"}
      value == SelectInSeq(buf, LAMBDA tok : tok.t \notin {"ff", "fe", "trailer", "pad"})
  IN  IF roots # {} THEN Max(roots)
      ELSE IF value = 0 THEN Len(buf) + 1 ELSE value

PushProp(props, k, v) ==
  IF \E i \in DOMAIN props : props[i][1] = k
  THEN [i \in DOMAIN props |-> IF props[i][1] = k THEN <<k, v>> ELSE props[i]]
  ELSE Append(props, <<k, v>>)

HasKeyString(v) == Is(v, "str") \/ Is(v, "num")
KeyString(v) == IF Is(v, "str") THEN v.str ELSE ToString(v.num)
CoerceAnyKey(v) ==
  CASE Is(v, "bool")  -> ToString(v.bool)
    [] Is(v, "null")  -> "null"
    [] Is(v, "undef") -> "undefined"
    [] OTHER          -> "[object Object]"

(* The canonical decimal strings below IndexBound are array indices too. *)
IndexBound == 10
ArrayIndex(v) ==
  LET is == {i \in 0..(IndexBound - 1) : v = Num(i) \/ v = Str(ToString(i))}
  IN  IF is = {} THEN -1 ELSE CHOOSE i \in is : TRUE

SetArrayElem(a, key, val) ==
  LET idx == ArrayIndex(key)
      grown == a.arr \o [i \in 1..(idx + 1 - Len(a.arr)) |-> Undefined]
  IN  IF idx >= 0 THEN [a EXCEPT !.arr = [grown EXCEPT ![idx + 1] = val]]
      ELSE IF HasKeyString(key) THEN [a EXCEPT !.props = PushProp(@, KeyString(key), val)]
      ELSE a

RECURSIVE Decode(_)

RECURSIVE Take(_, _)
Take(r, n) ==
  IF n = 0 \/ ~r.ok THEN [r |-> r, vs |-> <<>>]
  ELSE LET first == Decode(r)
           rest == Take(first, n - 1)
       IN  [r |-> rest.r, vs |-> <<first.v>> \o rest.vs]

(* At most n values, up to a closing tag.  Halving n keeps TLC's stack low. *)
RECURSIVE SomeTakeUntil(_, _, _)
SomeTakeUntil(r, end, n) ==
  LET p == Skip(r)
      one == Decode(p)
      half == SomeTakeUntil(r, end, n \div 2)
      rest == SomeTakeUntil(half.r, end, n - n \div 2)
  IN  IF ~r.ok THEN [r |-> r, vs |-> <<>>, closed |-> TRUE]
      ELSE IF n > 1
      THEN IF half.closed THEN half ELSE [rest EXCEPT !.vs = half.vs \o @]
      ELSE CASE TagOf(p, p.pos) = end   -> [r |-> [p EXCEPT !.pos = @ + 1], vs |-> <<>>, closed |-> TRUE]
             [] TagOf(p, p.pos) = "end" -> [r |-> Err(p), vs |-> <<>>, closed |-> TRUE]
             [] OTHER -> [r |-> one, vs |-> <<one.v>>, closed |-> FALSE]
TakeUntil(r, end) == SomeTakeUntil(r, end, Len(r.buf))

KeyValues(vs) == [i \in 1..(Len(vs) \div 2) |-> <<vs[2*i - 1], vs[2*i]>>]

NObject(r, off) ==
  LET body == TakeUntil(Register(r, off), "{")
      push(o, p) == IF HasKeyString(p[1]) THEN PushProp(o, KeyString(p[1]), p[2]) ELSE o
  IN  Ok(body.r, Obj(FoldLeft(push, <<>>, KeyValues(body.vs))))

Elements(a, pairs) == FoldLeft(LAMBDA b, p : SetArrayElem(b, p[1], p[2]), a, pairs)

NDenseArray(r, off, n) ==
  LET items == Take(Register(r, off), n)
      props == TakeUntil(items.r, "$")
  IN  Ok(props.r, Elements(Arr(items.vs), KeyValues(props.vs)))

NSparseArray(r, off, n) ==
  LET body == TakeUntil(Register(r, off), "@")
  IN  Ok(body.r, Elements(Arr([i \in 1..n |-> Undefined]), KeyValues(body.vs)))

NMap(r, off) ==
  LET body == TakeUntil(Register(r, off), ":")
      key(v) == IF HasKeyString(v) THEN KeyString(v) ELSE CoerceAnyKey(v)
      push(o, p) == PushProp(o, key(p[1]), p[2])
  IN  Ok(body.r, Obj(FoldLeft(push, <<>>, KeyValues(body.vs))))

NSet(r, off) ==
  LET body == TakeUntil(Register(r, off), ",") IN Ok(body.r, Arr(body.vs))

NArrayBuffer(r, off, n) == Register(Ok(r, [bytes |-> n]), off)
NHostObject(r, off, n) == IF n < 0 THEN Err(r) ELSE Register(Ok(r, [blob |-> n]), off)
NRegexp(r) == LET p == Decode(r) IN Ok(p, [regexp |-> p.v])

(* '^': decode the target again, then go on after the reference. *)
Reference(r, id) ==
  IF id + 1 \notin DOMAIN r.objects \/ r.depth > MaxResolve THEN Err(r)
  ELSE LET again == Decode([r EXCEPT !.pos = r.objects[id + 1], !.depth = @ + 1])
       IN  [again EXCEPT !.pos = r.pos, !.depth = r.depth]

Decode(r) ==
  LET p == Skip(r)
      off == p.pos
      tok == p.buf[off]
      q == [p EXCEPT !.pos = @ + 1]
  IN
  IF ~r.ok THEN r
  ELSE IF off > Len(p.buf) THEN Err(p)
  ELSE CASE tok.t = "_" -> Ok(q, Undefined)
         [] tok.t = "0" -> Ok(q, Null)
         [] tok.t \in {"T", "y"} -> Ok(q, Yes)
         [] tok.t \in {"F", "x"} -> Ok(q, No)
         [] tok.t \in {"I", "U", "N", "n"} -> Ok(q, Num(tok.n))
         [] tok.t = "D" -> Ok(q, [date |-> tok.n])
         [] tok.t \in {"Z", "z"} -> Ok(q, [big |-> tok.n])
         [] tok.t = "s" -> Decode(q)
         [] tok.t \in {"B", "~"} -> NArrayBuffer(q, off, tok.n)
         [] tok.t = "V" -> Ok(q, [view |-> tok.n])
         [] tok.t \in {"str1", "c", "S"} -> Ok(q, Str(tok.s))
         [] tok.t = "o" -> NObject(q, off)
         [] tok.t = "A" -> NDenseArray(q, off, tok.n)
         [] tok.t = "a" -> NSparseArray(q, off, tok.n)
         [] tok.t = ";" -> NMap(q, off)
         [] tok.t = "'" -> NSet(q, off)
         [] tok.t = "R" -> NRegexp(q)
         [] tok.t = "^" -> Reference(q, tok.n)
         [] tok.t = "host" -> NHostObject(q, off, tok.n)
         [] OTHER -> Err(q)

NativeFailed == [fails |-> 0]

NativeDeserialize(buf) ==
  LET r == Decode([buf |-> buf, pos |-> Header(buf), objects |-> <<>>, depth |-> 0,
                   v |-> Undefined, ok |-> TRUE])
  IN  IF r.ok THEN r.v ELSE NativeFailed
=============================================================================
