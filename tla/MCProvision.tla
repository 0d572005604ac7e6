---------------------------- MODULE MCProvision ----------------------------
(* Two creations, each with any of five providers.                         *)
EXTENDS Provision, TLC

\* footloose does what ignite does, and vultr what digitalocean does, but that
\* its failed checks answer no, as those of linode do.
Kinds == {"digitalocean", "linode", "multipass", "ignite", "vagrant"}
KindIs == [p \in Provider |-> p]

\* Two of them share their prefix.
PrefixIs == [p \in Provider |-> IF p \in {"digitalocean", "multipass"} THEN "a" ELSE p]

\* The creations are alike.
Symmetry == Permutations(Thread)
=============================================================================
