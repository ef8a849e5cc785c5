------------------------------ MODULE MCClients ------------------------------
(***************************************************************************)
(* Instances of Clients for TLC, and the soundness of split_sentences on   *)
(* short texts, which TLC evaluates before it starts.                      *)
(***************************************************************************)
EXTENDS Clients

CONSTANTS p, q, o1, o2, path, t1, t2, t3, t4, a, b, w1, w2, r1, r2, u1, u2

MCBatches    == {<<1, 2>>}
MCCwd        == <<"cwd">>
MCFolders    == {<<"cwd">>, <<"out">>}
MCTargets    == {<<"cwd", "f">>, <<"out", "f">>}
MCConfigured == {{PathGrant("read_file", <<"out">>), OriginGrant(o1, FALSE)}}
MCDrafts     == {{PathGrant("write_file", <<"out">>), CommandGrant("ls")}}

MCFolder == << <<"m">>, <<"o", "r">>, <<"m">>, <<"o">> >>

\* A text of what follows each letter but the last: 0 nothing, 1 a space, 2 a clause's end
\* and a space, 3 a sentence's, 4 and 5 the same without a space.
Text(levels) ==
  [letters   |-> Len(levels) + 1,
   spaces    |-> {i \in DOMAIN levels : levels[i] \in {1, 2, 3}},
   clauses   |-> {i \in DOMAIN levels : levels[i] \in {2, 4}},
   sentences |-> {i \in DOMAIN levels : levels[i] \in {3, 5}}]
MCTexts == {Text(<<0, 0, 0, 0, 1, 0, 0>>), Text(<<3, 1, 2, 0, 5, 3>>), Text(<<3, 3, 0, 3, 0, 3, 3>>)}

\* The units can be put into this many groups within the limit.
GroupsWillDo(n, units, spaces, limit) ==
  \E cuts \in SUBSET (1..(Len(units) - 1)) :
    LET runsOf == Parts(<<1, Len(units)>>, cuts)
    IN  /\ Cardinality(cuts) + 1 = n
        /\ \A i \in DOMAIN runsOf :
             GroupLength(SubSeq(units, runsOf[i][1], runsOf[i][2]), spaces) <= limit

\* split_sentences keeps a text whole, every group within the limit, and makes as few groups
\* as the units can be put into.
Sound(text, limit) ==
  LET groups == SplitSentences(text, Whole(text), limit)
      units  == Units(text, Whole(text), limit)
  IN  /\ Covers(FlattenSeq(groups), Whole(text))
      /\ \A i \in DOMAIN groups : GroupLength(groups[i], text.spaces) <= limit
      /\ Length(Whole(text), text.spaces) > limit =>
           /\ FlattenSeq(groups) = units
           /\ \A n \in 1..(Len(groups) - 1) : ~GroupsWillDo(n, units, text.spaces, limit)

ASSUME SplitSound ==
  \A levels \in [1..4 -> {0, 1, 3, 4}], limit \in 1..8 : Sound(Text(levels), limit)

\* Of longer texts that is not so.  Sentences of 6, 3, 3 and 6 letters fit into two groups of
\* 10 characters; with the spaces between them they are 21 characters, which are taken to
\* need three groups, and three is what comes of it.
ASSUME TwoWouldDo ==
  LET text == [letters |-> 18, spaces |-> {6, 9, 12}, clauses |-> {}, sentences |-> {6, 9, 12}]
  IN  /\ Len(SplitSentences(text, Whole(text), 10)) = 3
      /\ GroupsWillDo(2, Units(text, Whole(text), 10), text.spaces, 10)

MCBaseSettings == [NothingSet EXCEPT !["threads"] = 2]
MCExtraArgs ==
  {<<Flag("-c"), Value(4), FlagIs("--parallel", 2)>>,
   <<Flag("--kv-unified"), Flag("-np"), Value(2), Flag("--no-kv-unified"), Flag("--ctx-size"), Value(0)>>,
   <<Flag("-kvu"), FlagIs("--kv-unified-per-slot", 3), Flag("--no-jinja"), Flag("--no-mmproj")>>,
   <<Flag("-mm"), Value(1), FlagIs("--reasoning-budget", 0), Flag("--no-jinja"), Flag("--jinja")>>}
MCNewValues ==
  [ctx_size |-> {0, 9}, n_parallel |-> {-1, 2}, threads |-> {4}, mmproj |-> {1},
   extra_args |-> MCExtraArgs]
MCEarlySettings ==
  {[global |-> [NothingSet EXCEPT !["extra_args"] = x],
    model  |-> [NothingSet EXCEPT !["n_parallel"] = 2, !["ctx_size"] = c]] :
     x \in {NotSet, <<FlagIs("--parallel", 3)>>}, c \in {NotSet, 20}}
MCTemplate == [known |-> TRUE, tools |-> TRUE, thinks |-> TRUE]

\* Streams of up to three events of any kind and [DONE], some longer than what is kept of a
\* reply, two whose tokens are reported twice or none was generated, one that ends without a
\* word, and a JSON body.
Noise == [shape |-> "noise", thinking |-> <<>>, content |-> <<>>, calls |-> <<>>,
          usage |-> NoTokens, timings |-> NoTokens]
Done  == [Noise EXCEPT !.shape = "done"]
Event(field, value) == [Noise EXCEPT !.shape = "event", ![field] = value]
Tokens(prompt, completion) == [prompt |-> prompt, completion |-> completion]
CallPiece(index, id, n) == Event("calls", <<[index |-> index, id |-> id, args |-> <<n>>]>>)
MCLines ==
  {Event("thinking", <<1>>), Event("content", <<2>>), CallPiece(0, 2, 3), CallPiece(1, 1, 4),
   CallPiece(0, 0, 5), [Event("usage", Tokens(5, 3)) EXCEPT !.timings = Tokens(4, 3)], Noise}
MCReplies ==
  {Append(lines, Done) : lines \in UNION {[1..n -> MCLines] : n \in 1..3}} \cup
  {<<Event("content", <<1>>), [Event("usage", Tokens(5, 0)) EXCEPT !.content = <<2>>],
     Noise, Event("usage", Tokens(5, 1))>>,
   <<Event("content", <<1>>), Event("timings", Tokens(5, 2)), Noise, Done>>,
   <<Event("usage", Tokens(5, 0)), Done>>,
   [i \in 1..3 |-> [Noise EXCEPT !.shape = "body",
                                !.usage = IF i = 3 THEN Tokens(5, 1) ELSE NoTokens]]}
=============================================================================
