--------------------------- MODULE MCPreparation ---------------------------
(* Instances of Preparation for TLC.                                        *)
EXTENDS Preparation

CONSTANTS e1, e2, c1, c2, c3, l1

\* A local name; one with a quotation mark, one with a backslash; two entries
\* whose quotation marks pair up; more than fit; one that is too long.
MCLists == {<<<<"loopback">>>>, <<<<"loopback">>, <<"quote">>>>, <<<<"slash">>>>,
            <<<<"quote">>, <<"quote", "empty">>>>, <<<<"word">>, <<"word">>, <<"word">>>>, <<<<"long">>>>}
MCValues == {<<"loopback">>, <<"empty", "word">>, <<"word", "word", "word">>,
             <<"word", "word", "word", "word", "word">>, <<"quote", "slash", "quote">>, <<"spaced", "word">>}

App(id, exe, entry, at) == [id |-> id, exe |-> exe, entry |-> entry, at |-> at]
MCManifest ==
  LET package(family, version, native, apps) ==
        [family |-> family, named |-> TRUE, root |-> TRUE, version |-> version, native |-> native, apps |-> apps]
  IN (c1 :> package("Codex", 1, TRUE, {App("App", "app/ChatGPT.exe", "FullTrust", "inside")}))
  @@ (c2 :> package("Codex", 2, FALSE, {App("App", "app/ChatGPT.exe", "none", "inside"),
                                        App("Tool", "other.exe", "FullTrust", "inside")}))
  @@ (c3 :> package("Codex", 2, TRUE, {App("App", "app/ChatGPT.exe", "FullTrust", "outside")}))
  @@ (l1 :> package("Classic", 1, TRUE, {App("App", "ChatGPT.exe", "FullTrust", "inside"),
                                         App("none", "other.exe", "FullTrust", "inside")}))

MCInstalled == {{c1, c2, l1}}

MCOverrides ==
  {[package |-> NoPackage, app |-> NoApp, store |-> FALSE],
   [package |-> c1, app |-> App("App", "app/ChatGPT.exe", "FullTrust", "inside"), store |-> TRUE]}
=============================================================================
