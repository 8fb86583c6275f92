------------------------------ MODULE MCQuery ------------------------------
(***************************************************************************)
(* Every chain of two stages, each with its arguments, and of a third one   *)
(* out of a few, over a sequence with a repetition and the empty one.       *)
(***************************************************************************)
EXTENDS Query

MCSources == {<<>>, <<1, 2, 1, 0>>}

WithFunctor == {<<"where", "odd">>, <<"where_i", "even_i">>, <<"select", "inc">>,
                <<"select_i", "at_i">>, <<"skip_while", "odd">>, <<"skip_while_i", "even_i">>,
                <<"take_while", "small">>, <<"take_while_i", "early_i">>,
                <<"distinct", "self">>, <<"distinct", "parity">>,
                <<"select_many", "copies">>, <<"select_many_i", "copies_i">>,
                <<"select", "copies">>, <<"select_inner", "inc">>, <<"select_inner_i", "at_i">>,
                <<"reverse", "self">>, <<"order_by", "self">>, <<"tee", "self">>}

WithNumber == {<<"skip", 0>>, <<"skip", 2>>, <<"take", 0>>, <<"take", 2>>, <<"take", 3>>,
               <<"cycle", -1>>, <<"cycle", 0>>, <<"cycle", 1>>, <<"cycle", 3>>,
               <<"default_if_empty", 2>>}

WithSequence == {<<"concat", "self", <<1, 0>> >>, <<"union_with", "self", <<1, 3>> >>,
                 <<"except", "self", <<0, 3>> >>, <<"intersect_with", "self", <<2, 1, 1>> >>,
                 <<"zip", "self", <<1, 2>> >>, <<"mix", "self", <<1, 2>> >>,
                 <<"join", "self", <<1, 2, 1>> >>, <<"join", "self", <<0, 2>> >>,
                 <<"join", "parity", <<1, 0>> >>, <<"group_join", "parity", <<1, 3>> >>}

MCStages ==
  {Stage(x[1], x[2], 0, <<>>, FALSE) : x \in WithFunctor}
  \cup {Stage(x[1], "self", x[2], <<>>, FALSE) : x \in WithNumber}
  \cup {Stage(x[1], x[2], 0, x[3], left) : x \in WithSequence, left \in {FALSE}}
  \cup {Stage(x[1], x[2], 0, x[3], TRUE) :
          x \in {y \in WithSequence : y[1] \in {"join", "group_join"}}}

MCClosing ==
  {stage \in MCStages :
     \/ stage.op \in {"take", "cycle"} /\ stage.n = 3
     \/ stage.op \in {"where", "distinct"} /\ stage.f.fn # "parity"
     \/ Flattens(stage)}
=============================================================================
