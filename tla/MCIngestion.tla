------------------------------ MODULE MCIngestion ------------------------------
(***************************************************************************)
(* Four sessions over two slots, each about either of two repositories, a   *)
(* ceiling that the first clone reaches, and one failed commit or restart.  *)
(* With four, the bound on the disk is one that the sessions could pass even *)
(* after a restart that outlived one of them: all four workspaces fill it.  *)
(***************************************************************************)
EXTENDS IngestionProps, TLC

CONSTANTS a, b, c, d

MCLanguages == <<"go", "python">>
Plain == [files |-> {}, tables |-> {}, testpaths |-> {}, optional |-> FALSE, marked |-> {},
          required |-> FALSE, dirs |-> {}, ignored |-> {}, packages |-> {}, inSrc |-> {},
          loose |-> FALSE, tested |-> {}, suffixes |-> [l \in {"go", "python"} |-> 0],
          size |-> 1, commits |-> TRUE, origin |-> TRUE, branch |-> TRUE]
Poetry == [Plain EXCEPT !.files = {"pyproject.toml", "poetry.lock"}, !.tables = {"poetry", "pytest"},
                        !.packages = {"app", "venv"}, !.dirs = {"app", "venv"}, !.ignored = {"venv"},
                        !.origin = FALSE]
Loose == [Plain EXCEPT !.tested = {"pkg"}, !.suffixes = [l \in {"go", "python"} |-> 2]]
MCRepos == {Poetry, Loose}
Symmetry == Permutations({b, c, d})
MCBinaries == {"python", "uv", "pip", "git"}
=============================================================================
