--------------------------- MODULE MCConversation ----------------------------
(***************************************************************************)
(* A small instance of Conversation: two ids, which Vertex may use again   *)
(* in every turn, and signatures one of which contains the marker.         *)
(***************************************************************************)
EXTENDS Conversation

CONSTANTS idA, idB, sig1, sig2, marker, mangled

MCFragment == {idA, idB, sig1, sig2, mangled}

Signed(id, sig) ==
  [id |-> <<id>>, extra_content |-> [google |-> [thought_signature |-> sig, other |-> Absent]]]
Plain(id) == [id |-> <<id>>, extra_content |-> Absent]

MCReplies ==
  {<<>>,
   <<Signed(idA, <<sig1>>)>>,
   <<Signed(idA, <<sig2, marker, sig1>>), Plain(idB)>>,
   <<Signed(idB, <<sig2>>), Signed(idA, <<sig2>>)>>,
   <<[id |-> <<>>,
      extra_content |-> [google |-> [thought_signature |-> Absent, other |-> Other]]]>>}
==============================================================================
