----------------------------- MODULE MCOCIStore -----------------------------
(* Instances of OCIStore for TLC.                                          *)
EXTENDS OCIStore

\* Two versions of a manifest for a platform, one for the same platform with more
\* features, and one that is built locally with the config and the layer of the first.
Platforms == [a1 |-> "x", a2 |-> "x", b |-> "xf", p |-> "xf"]
Selectors == [x |-> {"x", "xf"}, xf |-> {"xf"}]
BarePlatforms == [p |-> "x"]
Configs == [a1 |-> "c1", a2 |-> "c2", b |-> "c3", p |-> "c1"]
Layers == [a1 |-> "l1", a2 |-> "l1", b |-> "l2", p |-> "l1"]
Versions == <<{"a1", "b"}, {"a2", "b"}>>
Listing == <<"a1", "a2", "b">>

\* Two references that list the same manifest in indexes of their own.
Stores == {[r \in Refs |-> IF r = "latest" THEN {"a1"} ELSE {"a1", "b"}]}
=============================================================================
