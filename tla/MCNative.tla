------------------------------ MODULE MCNative ------------------------------
(* Two chains of one conversation, a conversation record, and two profiles. *)
EXTENDS NativeStore, TLC

MCPlain == [profile |-> {"p1", "p2"}]
MCConvOf == [k \in Chain |-> "v"]
MCOpening == ("a" :> [seq |-> 1, value |-> "own"]) @@ ("p1" :> [seq |-> 2, value |-> "x"])

MCWrites ==
    ({"a"} \X {"empty", "sent", Tombstone}) \union ({"b"} \X {"own"})
    \union ({"p1"} \X {"x", Tombstone}) \union ({"p2"} \X {"x"}) \union ({"v"} \X {"title", Tombstone})
=============================================================================
