----------------------------- MODULE MCEventHub ------------------------------
(***************************************************************************)
(* Instances of EventHub for TLC.                                          *)
(***************************************************************************)
EXTENDS EventHub

CONSTANTS d1, d2

Ev(d, t, a) == [doc |-> d, type |-> t, action |-> a]

Key(by, of) == [by |-> by, of |-> of]

(* Two documents; one of them has a matching and a non-matching event. *)
MCTypes == {"queued", "completed"}
MCActions == {"", "FAILED"}
TwoDocEvents == {Ev(d1, "queued", ""), Ev(d1, "completed", ""), Ev(d2, "queued", "")}
TypeKeys == {Key("type", {"completed"})}

(* One document, all three kinds of key, an event that names no document. *)
OneDocEvents == {Ev(d1, "queued", ""), Ev(d1, "completed", "FAILED"), Ev(NoDoc, "queued", "")}
AllKeys == {Key("type", {"completed"}), Key("action", {"FAILED"}), Key("action", {})}
=============================================================================
