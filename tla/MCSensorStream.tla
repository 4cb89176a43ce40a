--------------------------- MODULE MCSensorStream ---------------------------
EXTENDS SensorStream, SequencesExt

Part(t, f, vs) == [type |-> t, finger |-> f, values |-> vs]

Message(command, parts) ==
  [command |-> command, parts |-> parts,
   data |-> FlattenSeq([k \in DOMAIN parts |->
              <<16 * Field[parts[k].type].code + 4 * parts[k].finger>> \o FlattenSeq(parts[k].values)])]

(* A field whose value has the start byte in it, two fields, and a version *)
(* reply whose text would make sense as a sample.                          *)
MCMessages ==
  { Message(88, <<Part("static", 0, <<<<154, 1>>>>)>>),
    Message(88, <<Part("dynamic", 1, <<<<1, 16>>>>), Part("static", 1, <<<<0, 2>>>>)>>),
    Message(227, <<Part("dynamic", 0, <<<<3, 1>>>>)>>) }

MCItems == (SUBSET {0, 1}) \ {{}}
=============================================================================
