---------------------------- MODULE MCT38Gateway ----------------------------
(* Calls of one or two bursts for TLC, the size of a frame on either side   *)
(* of what starts it off: control messages and image data with or without   *)
(* frames, in either order, with bad and aborted frames, carriers that drop *)
(* and one with less data than fill a packet.                               *)
EXTENDS T38Gateway

F(n, fate) == [n |-> n, fate |-> fate]
Control(fs) == [type |-> "V21", frames |-> fs]
Image(fs) == [type |-> "V17", frames |-> fs]

Call(e, t, script) == [ecm |-> e, terminal |-> t, script |-> script]

MCCalls ==
    {Call(e, FALSE, <<Control(<<F(11, "ok"), F(3, "ok")>>), Image(<<F(2, "bad"), F(2, "ok")>>)>>) : e \in BOOLEAN}
    \cup {Call(TRUE, FALSE, <<Control(<<F(9, "abort"), F(4, "ok")>>), Image(<<F(5, "drop")>>)>>),
          Call(TRUE, FALSE, <<Image(<<F(2, "ok")>>), Control(<<F(3, "ok"), F(10, "bad")>>)>>),
          Call(FALSE, FALSE, <<Image(<<F(2, "ok")>>), Control(<<F(3, "ok")>>)>>),
          Call(FALSE, FALSE, <<Control(<<F(3, "ok"), F(11, "drop")>>), Image(<<F(1, "ok")>>)>>),
          Call(TRUE, TRUE, <<Control(<<F(3, "ok")>>), Image(<<F(2, "ok")>>)>>),
          Call(TRUE, TRUE, <<Control(<<F(9, "ok")>>)>>)}

=============================================================================
