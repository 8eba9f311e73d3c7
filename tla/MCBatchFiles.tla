---------------------------- MODULE MCBatchFiles ----------------------------
(***************************************************************************)
(* Batches for BatchFiles: names of one or two letters, contents of one.   *)
(***************************************************************************)
EXTENDS BatchFiles, TLC

NodeSymmetry == Permutations(Nodes)

File(name, bytes) == [name |-> name, alias |-> <<>>, bytes |-> bytes]
Alias(name, alias, bytes) == [name |-> name, alias |-> alias, bytes |-> bytes]

\* Two jobs whose files to run have one name, and a required file of the build
\* that one job has under an alias, and the other under the name of that file.
PythonBatch(batch_name, namespace, version) ==
  [batch_name |-> batch_name, namespace |-> namespace, python |-> TRUE,
   build |-> File(<<"b">>, <<version>>),
   required |-> <<File(<<"r">>, <<"x">>)>>,
   jobs |-> <<[name |-> <<"j">>, file |-> File(<<"m">>, <<version>>),
               required |-> <<Alias(<<"r">>, <<"s">>, <<"x">>)>>],
              [name |-> <<"k">>, file |-> File(<<"m">>, <<"k">>),
               required |-> <<Alias(<<"r">>, <<"m">>, <<"x">>)>>]>>]

ApptainerBatch(batch_name, namespace, version) ==
  [batch_name |-> batch_name, namespace |-> namespace, python |-> FALSE,
   build |-> File(<<"b">>, <<version>>),
   required |-> <<>>,
   jobs |-> <<[name |-> <<"j">>, required |-> <<File(<<"r">>, <<version>>)>>]>>]

\* Two jobs of one name.
DuplicateBatch(batch_name, namespace) ==
  [batch_name |-> batch_name, namespace |-> namespace, python |-> TRUE,
   build |-> File(<<"b">>, <<"5">>), required |-> <<>>,
   jobs |-> [i \in 1..2 |-> [name |-> <<"j">>, required |-> <<>>,
                              file |-> File(<<"m">>, <<ToString(i)>>)]]]

\* A batch that `distribute add` refuses, two batches of one name in two
\* namespaces, and another one of the name of the first.
SeparateConfigs ==
  <<DuplicateBatch(<<"c">>, <<"u">>),
    ApptainerBatch(<<"a">>, <<"u">>, "1"), ApptainerBatch(<<"a">>, <<"v">>, "2"),
    PythonBatch(<<"a">>, <<"u">>, "3")>>
=============================================================================
