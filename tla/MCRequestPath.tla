--------------------------- MODULE MCRequestPath ---------------------------
(* RequestPath on small sets.  The bodies: a text; two messages with an image *)
(* each, one of them between texts; an image that is no data: URI and a part  *)
(* of an unknown type, after good parts; no message; no token to generate;    *)
(* and one body per failing check.                                            *)
EXTENDS RequestPath, TLC

CONSTANTS hello, look, cat, dog

MCTexts == {hello, look}

Text(t) == [type |-> "text", of |-> t, usable |-> TRUE]
Image(i, usable) == [type |-> "image_url", of |-> i, usable |-> usable]
Unknown == [type |-> "other", of |-> None, usable |-> TRUE]

MCParts == {Text(look), Image(cat, TRUE), Image(cat, FALSE), Image(dog, TRUE), Unknown}

Body(flaws, messages, max_tokens) ==
    [flaws |-> flaws, messages |-> messages, max_tokens |-> max_tokens]
Good(messages) == Body({}, messages, 512)
Flawed(flaws) == Body(flaws, <<hello>>, 512)

MCBodies ==
    {Good(<<hello>>),
     Good(<<hello, <<Image(cat, TRUE)>>, <<Text(look), Image(dog, TRUE), Image(dog, TRUE)>>>>),
     Good(<<<<Image(dog, TRUE), Text(look)>>, <<Unknown>>>>),
     Good(<<<<Text(look), Image(cat, FALSE)>>>>),
     Good(<<>>),
     Body({}, <<hello>>, 0),
     Flawed({"stream"}), Flawed({"invalid", "stream"}), Flawed({"no_key", "too_large"}),
     Flawed({"malformed", "no_key"}), Flawed({"no_key", "stream"})}

Symmetry == Permutations(Requests) \cup Permutations(Paths)
=============================================================================
