------------------------- MODULE MCModuleLifecycle -------------------------
(* Instances of ModuleLifecycle for TLC: two of the modules offer the same *)
(* service, one of them offers a second one.                               *)
EXTENDS ModuleLifecycle

CONSTANTS bus, http, plugins

ThreeNames == {bus, http, plugins}
TwoKeys    == {"message_bus", "http_transfer"}
SomeFiles  == {<<bus, http, plugins>>, <<http, bus>>, <<bus, bus>>}

MCProvides == [n \in Names |->
    CASE n = bus     -> {"message_bus"}
      [] n = http    -> {"message_bus", "http_transfer"}
      [] n = plugins -> {}]
=============================================================================
