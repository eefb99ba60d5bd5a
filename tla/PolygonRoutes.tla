---------------------------- MODULE PolygonRoutes ----------------------------
(***************************************************************************)
(* The routes of a Polygon problem (api/user/polygon/problems), file by    *)
(* file: what each calls on Polygon and does to the rows that cache the    *)
(* problem, in order (cache.py).                                           *)
(***************************************************************************)
EXTENDS PolygonMethods

\* A copy of the rows is read after the answer, and written with it.
Refresh(method, row) == <<Call(method), RouteStep("load", row, FALSE), RouteStep("flush", row, FALSE)>>
RefreshList == Refresh("list_problems", "problem")
RefreshInfo == Refresh("get_info", "info")
RefreshStatements == Refresh("get_statements", "statements")
RefreshSolutions == Refresh("get_solutions", "solutions")

\* Rows answer when there are any; otherwise the route goes on.
Cached(row) == <<RouteStep("peek", row, FALSE)>>
\* No row by now is a 404.
Found == <<RouteStep("found", "problem", FALSE)>>

ListRoutes == [list |-> RefreshList, list_cached |-> <<RouteStep("show", "problem", FALSE)>>]

DetailRoutes ==
    [detail |-> Cached("problem") \o RefreshList \o Found,
     sync |-> RefreshInfo \o RefreshStatements]

CreateRoutes == [create |-> <<Call("create_problem")>>]

\* Mutant: the rows are refreshed before the edit.
InfoRoutesSavedLast ==
    [info |-> Cached("info") \o RefreshInfo, info_refreshed |-> RefreshInfo,
     update_info |-> RefreshInfo \o <<Call("update_info")>>]

InfoRoutes ==
    [info |-> Cached("info") \o RefreshInfo, info_refreshed |-> RefreshInfo,
     update_info |-> <<Call("update_info")>> \o RefreshInfo]

StatementRoutes ==
    [statements |-> Cached("statements") \o RefreshStatements,
     statements_refreshed |-> RefreshStatements,
     save_statement |-> <<Call("save_statement")>> \o RefreshStatements,
     render |-> <<Call("render_statements")>>,
     resources |-> <<Call("get_statement_resources")>>,
     view_resource |-> <<Call("view_statement_resource")>>,
     save_resource |-> <<Call("save_statement_resource")>>]

FileRoutes ==
    [files |-> <<Call("get_files")>> \o RefreshSolutions,
     view_file |-> <<Call("view_file")>>, save_file |-> <<Call("save_file")>>,
     view_solution |-> <<Call("view_solution")>>, save_solution |-> <<Call("save_solution")>>,
     extra_tags |-> <<Call("edit_solution_extra_tags")>>]

\* With a source the checker is uploaded and set, without it only set.
CheckerRoutes ==
    [checker |-> <<Call("get_checker")>>,
     set_checker |-> <<Call("set_checker")>>, upload_checker |-> Upload("set_checker"),
     checker_tests |-> <<Call("get_checker_tests")>>,
     save_checker_test |-> <<Call("save_checker_test")>>,
     validator |-> <<Call("get_validator")>>, set_validator |-> Upload("set_validator"),
     extra_validators |-> <<Call("get_extra_validators")>>]

InteractorRoutes ==
    [validator_tests |-> <<Call("get_validator_tests")>>,
     save_validator_test |-> <<Call("save_validator_test")>>,
     interactor |-> <<Call("get_interactor")>>, set_interactor |-> Upload("set_interactor"),
     script |-> <<Call("get_script")>>, save_script |-> <<Call("save_script")>>,
     clear_script |-> <<Call("clear_script")>>]

TestRoutes ==
    [tests |-> <<Call("get_tests")>>, preview_tests |-> <<Call("preview_tests")>>,
     save_test |-> <<Call("save_test")>>, delete_tests |-> <<Call("delete_tests")>>,
     set_test_group |-> <<Call("set_test_group")>>,
     test_input |-> <<Call("get_test_input")>>,
     test_preview |-> <<Call("get_test_input"), Call("get_test_answer")>>,
     test_answer |-> <<Call("get_test_answer")>>,
     replace_test |-> <<RouteStep("call", "save_test", FALSE)>>]

SettingsRoutes ==
    [enable_groups |-> <<Call("enable_groups")>>, enable_points |-> <<Call("enable_points")>>,
     percents |-> <<Call("enable_treat_points_from_checker_as_percent")>>,
     groups |-> <<Call("view_test_group")>>, save_group |-> <<Call("save_test_group")>>]

MetaRoutes ==
    [note |-> <<Call("get_note")>>, save_note |-> <<Call("save_note")>>,
     description |-> <<Call("view_general_description")>>,
     save_description |-> <<Call("save_general_description")>>,
     tutorial |-> <<Call("view_general_tutorial")>>,
     save_tutorial |-> <<Call("save_general_tutorial")>>,
     accesses |-> <<Call("get_accesses")>>, set_access |-> <<Call("set_access")>>]

TagRoutes == [tags |-> <<Call("view_tags")>>, set_tags |-> <<Call("save_tags")>>]

IssueRoutes ==
    [cautions |-> <<Call("get_cautions")>>, issues |-> <<Call("get_issues")>>,
     add_issue |-> <<Call("add_issue")>>, update_issue |-> <<Call("update_issue")>>]

MaterialRoutes ==
    [materials |-> <<Call("get_materials")>>, save_material |-> <<Call("save_material")>>,
     remove_material |-> <<Call("remove_material")>>]

WorkingCopyRoutes ==
    [update_copy |-> <<Call("update_working_copy")>>,
     discard |-> <<Call("discard_working_copy")>>, commit |-> <<Call("commit_changes")>>]

PackageRoutes ==
    [packages |-> <<Call("get_packages")>>, download |-> <<Call("download_package")>>,
     build |-> <<Call("commit_changes"), Call("build_package")>>,
     build_committed |-> <<Call("build_package")>>]

ContestRoutes == [contest |-> <<Call("get_contest_problems")>>]

\* The session of the problem, added by whoever finds none.
Opened == <<RouteStep("find", "session", FALSE), RouteStep("add", "session", FALSE)>>
SessionRoutes ==
    [session |-> Opened, session_settings |-> Opened]

\* The credentials: probed with a list before they are stored.
AccountRoutes ==
    [link |-> <<RouteStep("user", "keys", FALSE), RouteStep("probe", "keys", FALSE),
                RouteStep("keep", "keys", FALSE)>>,
     unlink |-> <<RouteStep("user", "keys", FALSE), RouteStep("drop", "keys", FALSE)>>]

Routes ==
    Together({ListRoutes, DetailRoutes, CreateRoutes, InfoRoutes, StatementRoutes,
              FileRoutes, CheckerRoutes, InteractorRoutes, TestRoutes, SettingsRoutes,
              MetaRoutes, TagRoutes, IssueRoutes, MaterialRoutes, WorkingCopyRoutes,
              PackageRoutes, ContestRoutes, SessionRoutes, AccountRoutes})
=============================================================================
