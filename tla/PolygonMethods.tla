--------------------------- MODULE PolygonMethods ---------------------------
(***************************************************************************)
(* The wrappers of the Polygon API (api/user/polygon/methods): which part  *)
(* of a problem each reads or writes, which check their parameters before  *)
(* they call, and which steps the composite ones take.  A part is what     *)
(* Polygon overwrites as a whole; contents and encodings are abstracted.   *)
(***************************************************************************)
EXTENDS Sequences, TLC

\* One table of tables that have no name in common.
Together(tables) ==
    [name \in UNION {DOMAIN t : t \in tables} |-> (CHOOSE t \in tables : name \in DOMAIN t)[name]]

\* "checked": a bad parameter is refused here, before any request is sent.
Method(does, part, checked) == [does |-> does, part |-> part, checked |-> checked]
Reads(part) == Method("read", part, FALSE)
Writes(part) == Method("write", part, FALSE)
\* choice(), one_of(), _indices() and the range checks of the wrappers.
Checked(method) == [method EXCEPT !.checked = TRUE]

ProblemMethods ==
    [list_problems |-> Method("list", "list", FALSE),
     create_problem |-> Method("create", "other", FALSE),
     get_contest_problems |-> Reads("contest")]

InfoMethods ==
    [get_info |-> Reads("info"), update_info |-> Checked(Writes("info")),
     get_note |-> Reads("note"), save_note |-> Checked(Writes("note")),
     view_tags |-> Reads("tags"), save_tags |-> Writes("tags"),
     view_general_description |-> Reads("description"),
     save_general_description |-> Writes("description"),
     view_general_tutorial |-> Reads("tutorial"),
     save_general_tutorial |-> Writes("tutorial"),
     get_accesses |-> Reads("accesses"), set_access |-> Checked(Writes("accesses"))]

StatementMethods ==
    [get_statements |-> Reads("statements"), render_statements |-> Reads("statements"),
     save_statement |-> Checked(Writes("statements")),
     get_statement_resources |-> Reads("resources"),
     view_statement_resource |-> Reads("resources"),
     save_statement_resource |-> Writes("resources")]

FileMethods ==
    [get_files |-> Reads("files"), view_file |-> Checked(Reads("files")),
     view_file_bytes |-> Checked(Reads("files")),
     save_file |-> Checked(Writes("files"))]

SolutionMethods ==
    [get_solutions |-> Reads("solutions"), view_solution |-> Reads("solutions"),
     save_solution |-> Checked(Writes("solutions")),
     edit_solution_extra_tags |-> Checked(Writes("extraTags"))]

CheckingMethods ==
    [get_checker |-> Reads("checker"), set_checker |-> Writes("checker"),
     get_validator |-> Reads("validator"), set_validator |-> Writes("validator"),
     get_extra_validators |-> Reads("extraValidators"),
     get_interactor |-> Reads("interactor"), set_interactor |-> Writes("interactor"),
     get_validator_tests |-> Reads("validatorTests"),
     save_validator_test |-> Checked(Writes("validatorTests")),
     get_checker_tests |-> Reads("checkerTests"),
     save_checker_test |-> Checked(Writes("checkerTests"))]

TestsetMethods ==
    [get_script |-> Reads("script"), save_script |-> Writes("script"),
     clear_script |-> Writes("script"),
     get_tests |-> Reads("tests"), preview_tests |-> Reads("tests"),
     get_test_input |-> Reads("tests"), get_test_answer |-> Reads("tests"),
     save_test |-> Checked(Writes("tests")), delete_tests |-> Checked(Writes("tests")),
     set_test_group |-> Checked(Writes("testGroups"))]

GroupMethods ==
    [enable_groups |-> Writes("groups"), enable_points |-> Writes("points"),
     enable_treat_points_from_checker_as_percent |-> Writes("percents"),
     view_test_group |-> Reads("groups"), save_test_group |-> Checked(Writes("groups"))]

IssueMethods ==
    [get_cautions |-> Reads("cautions"), get_issues |-> Reads("issues"),
     add_issue |-> Checked(Writes("issues")), update_issue |-> Checked(Writes("issues"))]

MaterialMethods ==
    [get_materials |-> Reads("materials"), save_material |-> Checked(Writes("materials")),
     remove_material |-> Writes("materials")]

WorkingCopyMethods ==
    [update_working_copy |-> Method("update", "all", FALSE),
     discard_working_copy |-> Method("discard", "all", FALSE),
     commit_changes |-> Method("commit", "all", FALSE)]

PackageMethods ==
    [get_packages |-> Reads("packages"), download_package |-> Checked(Reads("packages")),
     build_package |-> Method("build", "packages", FALSE)]

Methods ==
    Together({ProblemMethods, InfoMethods, StatementMethods, FileMethods,
              SolutionMethods, CheckingMethods, TestsetMethods, GroupMethods,
              IssueMethods, MaterialMethods, WorkingCopyMethods, PackageMethods})

\* A step of a route: a call of a wrapper, or work on the cached rows.
RouteStep(does, what, checked) == [does |-> does, what |-> what, checked |-> checked]
Call(method) == RouteStep("call", method, Methods[method].checked)
\* The composite wrappers: the source goes up before it is assigned, and
\* their own parameters are always good.
Upload(set) == <<RouteStep("call", "save_file", FALSE), Call(set)>>

Parts == {Methods[m].part : m \in {n \in DOMAIN Methods : Methods[n].does = "write"}}
\* Kept beside the working copy: no commit is needed, no discard drops them.
Beside == {"note", "accesses", "issues"}

\* After a lost answer nobody knows whether these ran, so they are not repeated.
NotRepeatable == {"create_problem", "build_package", "add_issue", "update_issue"}
=============================================================================
