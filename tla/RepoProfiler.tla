----------------------------- MODULE RepoProfiler -----------------------------
(***************************************************************************)
(* How a repository says that it is built and tested.  What RepoProfiler     *)
(* reads of it is a record:                                                 *)
(*   files       names of regular files at the top                          *)
(*   tables      tables of pyproject.toml: "pytest", "uv", "poetry",         *)
(*               "project", "other" (none if it is missing, empty or does    *)
(*               not parse)                                                 *)
(*   testpaths   testpaths of its pytest table                              *)
(*   optional    an optional dependency of it starts with pytest             *)
(*   marked      those of tox.ini and setup.cfg that configure pytest        *)
(*   required    a name at the top matches requirements*.txt                *)
(*   dirs        directories at the top                                     *)
(*   ignored     those of them that INDEX_IGNORE_DIRS names                 *)
(*   packages    those of `dirs` with an __init__.py                        *)
(*   inSrc       directories of src/ with one                               *)
(*   loose       src/ has Python files of its own                           *)
(*   tested      directories with a test_*.py or *_test.py in them, none of   *)
(*               it below a directory of INDEX_IGNORE_DIRS                   *)
(*   suffixes    how many files there are of each source language           *)
(***************************************************************************)
EXTENDS Naturals, FiniteSets, CommandAllowlist

Word(name) == [name |-> name, meta |-> FALSE, control |-> FALSE]

\* ALLOWED_COMMAND_BINARIES has the interpreter that runs the tests.
ASSUME PytestAssumption == "python" \in Binaries

\* PYTEST_MODULE_INVOCATION.
Pytest == <<Word("python"), Word("-m"), Word("pytest")>>

FallbackPaths(r) == r.dirs \cap {"tests"}

\* Mistake: only what is configured counts.
ConfiguredTests(r) ==
    CASE "pytest" \in r.tables -> [found |-> TRUE, paths |-> r.testpaths]
      [] "pytest" \notin r.tables /\ "tests" \in r.dirs -> [found |-> TRUE, paths |-> {"tests"}]
      [] "pytest" \notin r.tables /\ "tests" \notin r.dirs -> [found |-> FALSE, paths |-> {}]

\* _detect_tests(): the first evidence that there is decides.
Tests(r) ==
    IF "pytest" \in r.tables
    THEN [found |-> TRUE,
          paths |-> IF r.testpaths # {} THEN r.testpaths ELSE FallbackPaths(r)]
    ELSE IF r.optional \/ "pytest.ini" \in r.files \/ r.marked \cap r.files # {}
    THEN [found |-> TRUE, paths |-> FallbackPaths(r)]
    ELSE IF "tests" \in r.dirs
    THEN [found |-> TRUE, paths |-> {"tests"}]
    ELSE [found |-> r.tested # {}, paths |-> r.tested]

\* _detect_dependency_manager(): a lock file or a table names it, and anything
\* else that can be installed is pip's.
Manager(r) ==
    LET uv == "uv.lock" \in r.files \/ "uv" \in r.tables
        poetry == "poetry.lock" \in r.files \/ "poetry" \in r.tables
        pip == "project" \in r.tables \/ r.files \cap {"setup.py", "setup.cfg"} # {} \/ r.required
    IN  CASE uv                        -> "uv"
          [] ~uv /\ poetry             -> "poetry"
          [] ~uv /\ ~poetry /\ pip     -> "pip"
          [] ~uv /\ ~poetry /\ ~pip    -> "none"

\* _INSTALL_COMMANDS.
InstallCommand(manager) ==
    CASE manager = "uv"     -> <<Word("uv"), Word("sync")>>
      [] manager = "poetry" -> <<Word("poetry"), Word("install")>>
      [] manager = "pip"    -> <<Word("pip"), Word("install"), Word("-e"), Word(".")>>
      [] manager = "none"   -> <<>>

\* _detect_language(): Python where a pyproject.toml says anything at all, or the language with the most files, the
\* first by name among equals.
Language(r, sorted) ==
    IF r.tables # {} \/ "setup.py" \in r.files THEN "python"
    ELSE LET most == {i \in DOMAIN sorted :
                        /\ r.suffixes[sorted[i]] > 0
                        /\ \A k \in DOMAIN sorted : r.suffixes[sorted[k]] <= r.suffixes[sorted[i]]}
         IN  IF most = {} THEN "unknown" ELSE sorted[CHOOSE i \in most : \A k \in most : i <= k]

\* _detect_package_dirs().
PackageDirs(r) ==
    IF r.inSrc # {} THEN r.inSrc
    ELSE IF r.loose THEN {"src"} ELSE r.packages \ (r.ignored \cup {"tests", "test", "docs"})

\* profile().
Profile(r, sorted) ==
    [suite    |-> Tests(r).found,
     paths    |-> Tests(r).paths,
     test     |-> IF Tests(r).found THEN Pytest ELSE <<>>,
     install  |-> InstallCommand(Manager(r)),
     language |-> Language(r, sorted),
     packages |-> PackageDirs(r)]
=============================================================================
