------------------------------ MODULE Discovery ------------------------------
(***************************************************************************)
(* The manifest that a configuration comes to, given what is built in,     *)
(* installed and on disk: _discover_plugin_descriptors().  Built-in        *)
(* plugins come first, then those the configuration refers to, then the    *)
(* installed ones if they are to be discovered, then the files of its      *)
(* plugin directories.                                                     *)
(*                                                                         *)
(* A reference is that of a module, a class or a file, or the name of a    *)
(* built-in plugin or an entry point.  Importing it is external: it leads  *)
(* to the Plugin classes of Classes, or raises.                            *)
(***************************************************************************)
EXTENDS PluginOrder, FiniteSets

CONSTANTS
  BuiltinRefs,      \* BUILTIN_PLUGINS: names to references
  DefaultBuiltins,  \* DEFAULT_BUILTIN_PLUGINS
  Published,        \* Published[n]: the distributions with an entry point n
  Classes,          \* Classes[r]: what r leads to; outside the domain it raises
  Contents,         \* Contents[d]: the files of directory d that count, sorted
  Outside,          \* references and directories outside the runtime root
  Unset             \* the configuration does not say

\* _configured_builtin_plugin_names()
BuiltinNames(c) ==
  SelectSeq(IF c.builtins = Unset THEN DefaultBuiltins ELSE c.builtins,
            LAMBDA n : n \notin c.disabled)

BuiltinsKnown(c) ==
  c.builtins # Unset => Range(c.builtins) \subseteq DOMAIN BuiltinRefs

\* _select_entry_point(): a name that a built-in extension has, or that two
\* distributions publish, is an error as soon as it is looked up.
Selectable(n) ==
  n \in DOMAIN Published => /\ n \notin DOMAIN BuiltinRefs
                            /\ Cardinality(Published[n]) = 1

\* _entry_points_by_name()
EntryPoints == SelectSeq(Alphabet, LAMBDA n : n \in DOMAIN Published)

\* _discover_entry_point_names() looks up each of them.
AllSelectable == \A n \in DOMAIN Published : Selectable(n)

\* _configured_user_plugin_refs()
UserRefs(c) ==
  c.plugins \o (IF c.autoDiscover
                THEN SelectSeq(EntryPoints, LAMBDA n : n \notin Range(c.plugins))
                ELSE << >>)

\* _configured_plugin_dirs(), and the files found there.
FilesOf(c) == FlattenSeq([i \in DOMAIN c.dirs |-> Contents[c.dirs[i]]])

Sources(c) ==
  [i \in DOMAIN BuiltinNames(c) |-> BuiltinRefs[BuiltinNames(c)[i]]]
  \o UserRefs(c) \o FilesOf(c)

\* _resolve_plugin_ref()
Resolve(r) == IF r \in DOMAIN BuiltinRefs THEN BuiltinRefs[r] ELSE r

\* _load_installed_extension(): one class, of the name of its entry point.
LoadsInstalled(n) == Len(Classes[n]) = 1 /\ Classes[n][1].name = n

\* _ensure_allowed_path()
Reachable(c, r) == c.allowExternal \/ r \notin Outside

\* _load_plugin_descriptors() does not raise.
Loads(c, r) ==
  /\ Selectable(r) /\ Resolve(r) \in DOMAIN Classes
  /\ IF r \in DOMAIN Published THEN LoadsInstalled(r) ELSE Reachable(c, Resolve(r))

\* The key of a class begins with the position of its reference, counting on
\* from there when a module has several.
Described(r, i) ==
  [j \in DOMAIN Classes[Resolve(r)] |-> [source |-> i + j] @@ Classes[Resolve(r)][j]]

\* _discover_plugin_descriptors() does not raise,
Discoverable(c) ==
  /\ BuiltinsKnown(c)
  /\ c.autoDiscover => AllSelectable
  /\ \A d \in Range(c.dirs) : Reachable(c, d)
  /\ \A r \in Range(Sources(c)) : Loads(c, r)

\* and returns this.
Descriptors(c) ==
  FlattenSeq([i \in DOMAIN Sources(c) |-> Described(Sources(c)[i], i)])
=============================================================================
