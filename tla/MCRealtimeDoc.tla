---------------------------- MODULE MCRealtimeDoc ----------------------------
(* A small instance of RealtimeDoc: a document with two members that patches add and remove. *)
EXTENDS RealtimeDoc

CONSTANTS w1, w2, null

MCClients == {w1, w2}

Members == {"a", "b"}
MCDocs == {d : d \in SUBSET Members}
MCInitDoc == {}

MCClientPatches == [op : {"add", "remove"}, path : Members]
MCReplace(d) == [op |-> "replace", value |-> d]
MCPatches == MCClientPatches \cup {MCReplace(d) : d \in MCDocs}

MCValid(d, p) ==
  CASE p.op = "add" -> p.path \notin d
    [] p.op = "remove" -> p.path \in d
    [] p.op = "replace" -> TRUE

MCApply(d, p) ==
  CASE p.op = "add" -> d \cup {p.path}
    [] p.op = "remove" -> d \ {p.path}
    [] p.op = "replace" -> p.value

(* A server update that is no edit of a single member: it swaps the document for its complement. *)
MCUpdater(d) == Members \ d
=============================================================================
