------------------------------- MODULE Config -------------------------------
(***************************************************************************)
(* What the program makes of its command line, its config file, its key    *)
(* file and its keystore (config.cpp): the nodes it subscribes to, the     *)
(* hosts it publishes on and the boxes it watches, or that it gives up.    *)
(*                                                                         *)
(* An address is [scheme, at]: scheme "" is one given without "tcp://",    *)
(* "bad" one that matches none of the accepted forms.  A file that is JSON *)
(* is the function it denotes; Missing or Garbled otherwise.  A path is a  *)
(* string as it was spelled, and directories the set of those spellings    *)
(* is_directory accepts: "/d" and "/d/", or a link, are different paths to *)
(* one directory.                                                          *)
(***************************************************************************)
EXTENDS Naturals, Sequences, SequencesExt, Functions, FiniteSets

CONSTANTS
  NoKey,        \* the empty string that stands for a key that is not there
  Missing,      \* no such file
  Garbled       \* a file or a block that does not parse

-----------------------------------------------------------------------------
\* boost::program_options: the first store of an option wins, so an option on
\* the command line hides all its values in the config file.
Stored(cli, file) == [o \in DOMAIN cli |-> IF cli[o] = <<>> THEN file[o] ELSE cli[o]]

\* std::unique: only neighbours are compared, and as they were spelled.
WithoutRepeat(u, a) == IF u # <<>> /\ Last(u) = a THEN u ELSE Append(u, a)

Unique(s) ==
  LET kept[i \in 0 .. Len(s)] ==
        IF i = 0 THEN <<>> ELSE WithoutRepeat(kept[i - 1], s[i])
  IN kept[Len(s)]

Processable(a) == a.scheme # "bad"

Endpoint(a) == IF a.scheme = "" THEN [a EXCEPT !.scheme = "tcp"] ELSE a

\* Faulty: "tcp://" is not put in front.
EndpointsAsSpelled(addresses) == Unique(addresses)

Endpoints(addresses) == [i \in DOMAIN Unique(addresses) |-> Endpoint(Unique(addresses)[i])]

(* Boxes.  boxes_ maps names to boxes.                                     *)

\* updateBoxMap's verdict.  It compares the hash of the name with the names
\* that are keys of the map: no name is ever found to be claimed, and no path
\* is filled in for a box configured without one.  Paths are compared as they are
\* spelled, so one directory may get two boxes.
Mappable(boxes, box, directories) ==
  /\ box.path # "" => box.path \in directories
  /\ \A name \in DOMAIN boxes : boxes[name].path # box.path

\* map[key] = value
With(map, key, value) ==
  [k \in DOMAIN map \cup {key} |-> IF k = key THEN value ELSE map[k]]

\* A block that does not parse is skipped.
WithBox(boxes, box, directories) ==
  IF box.path # Garbled /\ Mappable(boxes, box, directories)
    THEN With(boxes, box.name, [path |-> box.path, symlinks |-> box.symlinks])
    ELSE boxes

\* Faulty: the loop ends behind the first box that is refused.
AddBoxesTillRefused(boxes, new, directories) ==
  LET after[i \in 0 .. Len(new)] ==
        IF i = 0 THEN boxes
        ELSE IF i > 1 /\ after[i - 1] = after[i - 2] THEN after[i - 1]
        ELSE WithBox(after[i - 1], new[i], directories)
  IN after[Len(new)]

AddBoxes(boxes, new, directories) ==
  LET after[i \in 0 .. Len(new)] ==
        IF i = 0 THEN boxes ELSE WithBox(after[i - 1], new[i], directories)
  IN after[Len(new)]

\* readConfigFile: every block but "program" configures a box, in the order of
\* their names.
BlockBoxes(blocks, directories) == AddBoxes(<<>>, blocks, directories)

\* Without a "program" block the text handed to program_options still holds
\* the boxes' JSON, which is not an option.
FileParses(file) == file # Missing /\ file.blocks # <<>> => file.program

-----------------------------------------------------------------------------
\* initialize's outcomes.
GivesUp == [ok |-> FALSE]

OptionName == {"node", "hostname", "box"}

NoOptions == [node |-> <<>>, hostname |-> <<>>, box |-> <<>>]

IsSequence(s) == s \in Seq(Range(s))

\* What an input is made of: every option has a list of values, which may be
\* empty, and a config file a list of blocks.
WellFormed(in) ==
  LET Lists(options) == DOMAIN options = OptionName
                          /\ \A o \in OptionName : IsSequence(options[o])
  IN /\ Lists(in.cli)
     /\ in.file # Missing => Lists(in.file.options) /\ IsSequence(in.file.blocks)

Options(in) ==
  Stored(in.cli, IF in.file = Missing THEN NoOptions ELSE in.file.options)

\* doSanityCheck, which returns at the first thing wrong.
Sane(in) ==
  LET o == Options(in) IN
  /\ ~in.help
  /\ o.node # <<>> /\ \A i \in DOMAIN o.node : Processable(o.node[i])
  /\ o.hostname # <<>> /\ \A i \in DOMAIN o.hostname : Processable(o.hostname[i])
  /\ o.box # <<>>

ConfiguredBoxes(in) ==
  AddBoxes(IF in.file = Missing THEN <<>>
                                ELSE BlockBoxes(in.file.blocks, in.directories),
           Options(in).box, in.directories)

KeyOf(keystore, endpoint) ==
  IF endpoint \in DOMAIN keystore THEN keystore[endpoint] ELSE NoKey

\* nodes_ is keyed by the hash of a node's public key; insert keeps the first.
WithNode(nodes, key, endpoint) ==
  IF key \in DOMAIN nodes THEN nodes ELSE With(nodes, key, endpoint)

NodeMap(endpoints, keystore) ==
  LET after[i \in 0 .. Len(endpoints)] ==
        IF i = 0 THEN <<>>
        ELSE WithNode(after[i - 1], KeyOf(keystore, endpoints[i]), endpoints[i])
  IN after[Len(endpoints)]

Initialize(in) ==
  IF \/ ~FileParses(in.file) \/ ~Sane(in)
     \/ in.create \/ in.keyFile \in {Missing, Garbled}
     \/ in.keystore \in {Missing, Garbled}
    THEN GivesUp
    ELSE [ok    |-> TRUE,
          nodes |-> NodeMap(Endpoints(Options(in).node), in.keystore),
          hosts |-> Endpoints(Options(in).hostname),
          boxes |-> ConfiguredBoxes(in)]
=============================================================================
