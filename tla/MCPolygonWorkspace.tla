------------------------- MODULE MCPolygonWorkspace -------------------------
\* Model-checking instance of PolygonWorkspace.
EXTENDS PolygonWorkspace

CONSTANTS r1, r2

TwoRequests == {r1, r2}
\* One route of each shape; the others differ from these in the part only.
Representative ==
    {"list", "list_cached", "detail", "sync", "create", "info", "update_info", "statements", "save_statement",
     "files", "save_note", "upload_checker", "extra_tags", "add_issue", "update_copy", "discard",
     "commit", "build", "build_committed", "test_preview", "session", "link", "unlink"}
Often == {"info", "files"}
RequestSymmetry == Permutations(TwoRequests)
=============================================================================
