----------------------------- MODULE MCDownload -----------------------------
(* Instances of Download: two packages or one database, two hosts.         *)
EXTENDS Download, TLC

PkgOrder   == <<"a", "b", "core", "u">>
Sizes      == [a |-> 2, b |-> 1, core |-> 2, u |-> 1]
CacheList  == <<"mirror">>
ServerList == <<"mirror", "main">>
Leftover   == {<<>>,
               Part(Main("a")) :> <<0>> @@ Part(Main("b")) :> <<0>>,
               Dest(Main("core")) :> <<1, 1>> @@ Dest(Sig("core")) :> <<0>>}
AllModes   == {<<FALSE, FALSE>>, <<TRUE, FALSE>>, <<TRUE, TRUE>>}
=============================================================================
