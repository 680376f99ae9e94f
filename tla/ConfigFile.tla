----------------------------- MODULE ConfigFile -----------------------------
(***************************************************************************)
(* The settings of a node on their way from the page to the modules that   *)
(* use them: the form (Config.js), the project and its text, one object to *)
(* a line (Project.js), the file, and the reader that runs at startup      *)
(* (Config.cpp) with the table of settings of each module and the list of  *)
(* the other nodes (Systems.cpp).                                          *)
(* A key is the sequence of its words, which an underscore separates.  Of  *)
(* the text only its lines and their lengths matter: character j of line i *)
(* is <<i, j>>.                                                            *)
(***************************************************************************)
EXTENDS Integers, FiniteSets, SequencesExt

CONSTANTS
  LineMax,    \* CONFIG_LINE_MAX, the reader's buffer with its terminator
  FormTexts,  \* the text fields of the form: keys
  FormBoxes,  \* its check boxes: keys
  Texts,      \* what is typed in; "" is nothing, "wide" is longer than a
              \* field of the board, "huge" makes a line too long for LineMax
  Peers       \* other nodes that may be added to the list

ASSUME LineMaxAssumption == LineMax \in Nat /\ LineMax > 3

VARIABLES
  main_config,  \* the project's settings: [keys that are set -> values]
  system_list,  \* the project's list of nodes
  text,         \* config.txt
  saved         \* the lines the last save was to write

configVars == <<main_config, system_list, text, saved>>

FormKeys == FormTexts \cup FormBoxes
NodeName == <<"network", "node", "name">>

ConfigTypeOK ==
  /\ DOMAIN main_config \subseteq FormKeys
  /\ Range(main_config) \subseteq Texts \cup {"on"}
  /\ Range(system_list) \subseteq Peers
  /\ Len(text) <= (LineMax + 2) * (Cardinality(FormKeys) + Cardinality(Peers)) + 2

-----------------------------------------------------------------------------
(* The page.                                                               *)

ConfigInit ==
  /\ main_config = <<>> /\ system_list = <<>> /\ text = <<>> /\ saved = <<>>

\* validate_config: a node has a name.
Valid(form) == form[NodeName] # ""

\* save_click: a form sends its texts and the boxes that are checked.  It may
\* show anything: load fills in what the project sets and leaves the rest.
SaveClick(form) ==
  /\ Valid(form)
  /\ main_config' = [k \in {f \in FormKeys : f \in FormBoxes => form[f] = "on"} |-> form[k]]
  /\ UNCHANGED <<system_list, text, saved>>

AddSystem(p) ==
  /\ p \notin Range(system_list) /\ system_list' = Append(system_list, p)
  /\ UNCHANGED <<main_config, text, saved>>

RemoveSystem(i) ==
  /\ system_list' = RemoveAt(system_list, i)
  /\ UNCHANGED <<main_config, text, saved>>

\* get_config_string: a line per setting and per node.
Line(key, value) ==
  [key |-> key, value |-> value, size |-> IF value = "huge" THEN LineMax - 1 ELSE 2]
SystemLine(p) == [key |-> <<"module">>, value |-> p, size |-> LineMax - 2]

Lines ==
  LET keys == SetToSeq(DOMAIN main_config)
  IN  [i \in DOMAIN keys |-> Line(keys[i], main_config[keys[i]])]
        \o [i \in DOMAIN system_list |-> SystemLine(system_list[i])]

NL == <<0, 0>>

Written(ls) ==
  FlattenSeq([i \in DOMAIN ls |-> [j \in 1 .. ls[i].size + 1 |->
                IF j > ls[i].size THEN NL ELSE <<i, j>>]])

\* The file is written to its end, or cut by a power failure.
SaveProject ==
  /\ saved' = Lines
  /\ \E n \in 0 .. Len(Written(Lines)) : text' = SubSeq(Written(Lines), 1, n)
  /\ UNCHANGED <<main_config, system_list>>

ConfigNext ==
  \/ SaveProject
  \/ \E texts \in [FormTexts -> Texts], boxes \in [FormBoxes -> {"", "on"}] : SaveClick(texts @@ boxes)
  \/ \E p \in Peers : AddSystem(p)
  \/ \E i \in DOMAIN system_list : RemoveSystem(i)

ConfigSpec == ConfigInit /\ [][ConfigNext]_configVars

-----------------------------------------------------------------------------
(* The board at startup.                                                   *)

\* Faulty variant of Newline: room for the terminator is not kept.
NewlineFull(p) ==
  LET at == {q \in p .. p + LineMax - 1 : q <= Len(text) /\ text[q] = NL}
  IN  IF at = {} THEN 0 ELSE CHOOSE q \in at : \A r \in at : q <= r

\* get_next_line from position p: where its newline is, or 0 if there is none
\* before the end of the file or of the buffer.
Newline(p) ==
  LET at == {q \in p .. p + LineMax - 2 : q <= Len(text) /\ text[q] = NL}
  IN  IF at = {} THEN 0 ELSE CHOOSE q \in at : \A r \in at : q <= r

\* load_config: the texts that are handed to parse_line, in their order.  A
\* text without its newline is not, and the next one starts behind it.
Read ==
  LET from[p \in 1 .. Len(text) + LineMax] ==
        IF p > Len(text) THEN <<>>
        ELSE IF Newline(p) = 0 THEN from[p + LineMax - 1]
        ELSE <<SubSeq(text, p, Newline(p) - 1)>> \o from[Newline(p) + 1]
  IN  from[1]

\* parseObject succeeds on what is a whole object.
Objects ==
  LET whole(t) == {i \in DOMAIN saved : t = [j \in 1 .. saved[i].size |-> <<i, j>>]}
      found == SelectSeq(Read, LAMBDA t : whole(t) # {})
  IN  [i \in DOMAIN found |-> saved[CHOOSE k \in whole(found[i]) : TRUE]]

\* get_module and get_name: before and behind the first underscore.
Module(key) == Head(key)
Name(key) == Tail(key)

\* The settings that network, aws, mqtt and http know, texts and switches.
TextNames == [network |-> {<<"node", "name">>, <<"wifi", "ssid">>, <<"wifi", "pass">>, <<"ip">>,
                           <<"mask">>, <<"gw">>, <<"dns">>},
              aws     |-> {<<"client", "id">>, <<"host">>, <<"pub", "topic">>, <<"sub", "topic">>},
              mqtt    |-> {<<"client", "id">>, <<"user">>, <<"pass">>, <<"host">>, <<"broker">>,
                           <<"pub", "topic">>, <<"sub", "topic">>},
              http    |-> {<<"port">>, <<"user">>, <<"pass">>}]
SwitchNames == [network |-> {<<"dhcp", "enabled">>, <<"eth", "enabled">>, <<"wifi", "enabled">>,
                             <<"wifi", "dhcp", "enabled">>},
                aws |-> {<<"enabled">>}, mqtt |-> {<<"enabled">>}, http |-> {}]

\* set_config of the module: a text is cut to its field.
Setting(name, value) ==
  IF name[Len(name)] = "enabled" THEN IF value = "on" THEN "yes" ELSE "no"
  ELSE IF value = "wide" THEN "cut" ELSE value

\* parse_line: an entry for the list of nodes goes to its front, another one to
\* the module it names if there is one that knows it.
ParseLine(line, s) ==
  IF line.key = <<"module">> THEN [s EXCEPT !.peers = <<line.value>> \o @]
  ELSE LET m == Module(line.key)
           n == Name(line.key)
       IN  IF m \in DOMAIN TextNames /\ n \in TextNames[m] \cup SwitchNames[m]
           THEN [s EXCEPT !.settings = (<<m>> \o n :> Setting(n, line.value)) @@ @]
           ELSE s

\* Config::init: the settings that differ from the constructors' and the list.
AtStartup == FoldLeft(LAMBDA s, l : ParseLine(l, s), [settings |-> <<>>, peers |-> <<>>], Objects)

-----------------------------------------------------------------------------
(* What the node starts with is what the page saved: of every line that is *)
(* whole in the file, wherever it was cut, and that the reader's buffer    *)
(* holds, the setting, as long as its field is and nothing of any other    *)
(* line; and the nodes of the list.                                        *)
StartsAsSaved ==
  LET end(i) == FoldFunction(LAMBDA l, n : n + l.size + 1, 0, SubSeq(saved, 1, i))
      whole == {i \in DOMAIN saved : end(i) <= Len(text) /\ saved[i].size <= LineMax - 2}
      known == {i \in whole : saved[i].key[1] \in {"network", "aws", "mqtt", "http"}}
      peers == {i \in whole : saved[i].key = <<"module">>}
      kept(v) == CASE v = "on" -> "yes" [] v = "wide" -> "cut" [] OTHER -> v
  IN  /\ AtStartup.settings =
           [k \in {saved[i].key : i \in known} |->
              kept(saved[CHOOSE i \in known : saved[i].key = k].value)]
      /\ Range(AtStartup.peers) = {saved[i].value : i \in peers}
      /\ \A i, j \in peers : i < j =>
           \E a, b \in DOMAIN AtStartup.peers :
             a < b /\ AtStartup.peers[a] = saved[j].value /\ AtStartup.peers[b] = saved[i].value

=============================================================================
