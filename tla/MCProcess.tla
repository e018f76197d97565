----------------------------- MODULE MCProcess ------------------------------
(***************************************************************************)
(* Instances of Process for TLC.                                           *)
(***************************************************************************)
EXTENDS Process

At(scheme, h) == [scheme |-> scheme, at |-> h]
BoxAt(name, path, links) == [name |-> name, path |-> path, symlinks |-> links]
Opt(n, h, b) == [node |-> n, hostname |-> h, box |-> b]

Host == At("", "host")
Peer == At("tcp", "peer")
Third == At("ipc", "third")

\* One node, one hostname, one box, all given on the command line.
Plain ==
  [help |-> FALSE, create |-> FALSE, file |-> Missing, keyFile |-> <<>>,
   keystore |-> (Peer :> "k1"), directories |-> {"/d", "/d/", "/e"},
   cli |-> Opt(<<Peer>>, <<Host>>, <<BoxAt("b", "/d", "follow")>>)]

TwoKeyless == [Plain EXCEPT !.cli.node = <<Peer, Third>>, !.keystore = <<>>]
TwoHostnames == [Plain EXCEPT !.cli.hostname = <<Host, At("", "other")>>]
Malformed == [Plain EXCEPT !.cli.node = <<At("bad", "x")>>]

MCInputs == { Plain, TwoKeyless, TwoHostnames, Malformed }

(* Nodes and boxes given in every way.                                     *)
Nodes ==
  { <<Peer>>, <<At("", "peer"), Peer>>, <<Peer, Third>>, <<Third, Peer, Peer>>,
    <<Peer, Third, At("", "peer")>>, <<>> }
Keystores ==
  { <<>>, Missing, (Peer :> "k1"), (Peer :> "k1") @@ (Third :> "k2"),
    (Peer :> "k1") @@ (Third :> "k1") }
SomeBoxes ==
  { BoxAt(n, p, "follow") : n \in {"b", "c"}, p \in {"/d", "/d/", "/e", "/file"} }
BoxStrings == { <<b>> : b \in SomeBoxes } \cup (SomeBoxes \X SomeBoxes) \cup { <<>> }
Blocks ==
  { <<>>, <<BoxAt("b", "/d", "copy")>>, <<BoxAt("b", "/d", "copy"), BoxAt("c", "/d", "copy")>>,
    <<BoxAt("b", Garbled, "copy"), BoxAt("c", "/e", "copy")>> }
Files == { Missing } \cup
  { [program |-> p, blocks |-> b, options |-> o] :
      p \in BOOLEAN, b \in Blocks, o \in {Plain.cli, Opt(<<>>, <<Host>>, <<>>)} }

MCSamples ==
  { [Plain EXCEPT !.cli.node = n, !.keystore = k] : n \in Nodes, k \in Keystores }
    \cup { [Plain EXCEPT !.cli.box = b, !.file = f] : b \in BoxStrings, f \in Files }
    \cup { [Plain EXCEPT !.help = TRUE], [Plain EXCEPT !.create = TRUE] }
    \cup MCInputs

MCAllChildren ==
  ({"pub", "hb", "disp"} \X {1}) \cup ({"sub"} \X {"k1", NoKey}) \cup {<<"box", "b">>}
=============================================================================
