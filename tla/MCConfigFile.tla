---------------------------- MODULE MCConfigFile ----------------------------
(***************************************************************************)
(* One or two imports and one settings command over a handful of data sources. *)
(***************************************************************************)
EXTENDS ConfigFile

CONSTANTS i1, i2, s1

Source(name, driver, tunnel, url) ==
    [name |-> name, driver |-> driver, tunnel |-> tunnel, url |-> url]

\* Two projects: "a" and, in the other, "a " behind a tunnel and "a-2".
MCFound(p) ==
    <<<<Source(<<"a">>, "server", FALSE, "host:port"), Source(<<"-", "b">>, "sqlite", FALSE, "path")>>,
      <<Source(<<"a", "-">>, "server", TRUE, "host"), Source(<<"b">>, "unknown", FALSE, "host"),
        Source(<<"a", "-", "2">>, "server", FALSE, "host")>>>>

MCSaved == {<<[alias |-> <<"b">>, loads |-> TRUE]>>}

MCStart == {NoFile} \cup MCSaved
=============================================================================
