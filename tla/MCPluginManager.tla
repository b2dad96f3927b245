-------------------------- MODULE MCPluginManager --------------------------
(* Instances of PluginManager for TLC.                                     *)
EXTENDS PluginManager

CONSTANTS a, b, c

ThreePlugins == {a, b, c}

\* The usual list, a shorter one, an empty one, and one with a name twice.
SomeConfigs == {<<a, b, c>>, <<b>>, <<>>, <<a, a>>}
=============================================================================
