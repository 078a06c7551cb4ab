---------------------------- MODULE MCAgentCards ----------------------------
(* One agent, for agents share nothing but locks, and two operators.  Two
   cards differ in what DetectChanges looks at, two only in the rest; each
   form of a body is there, with a signature that verifies and one that does
   not. *)
EXTENDS AgentCards

card1 == [shown |-> 1, rest |-> 1]
card2 == [shown |-> 2, rest |-> 1]
card2b == [shown |-> 2, rest |-> 2]

MCContents == {card1, card2, card2b}

Plain(c) == [content |-> c, form |-> "plain", valid |-> FALSE]
Compact(c, v) == [content |-> c, form |-> "compact", valid |-> v]
JSON(c, v) == [content |-> c, form |-> "json", valid |-> v]

MCBodies == {Plain(c) : c \in MCContents}
                \cup {Compact(card2, TRUE), Compact(card1, FALSE), JSON(card1, TRUE), JSON(card2, FALSE)}
=============================================================================
