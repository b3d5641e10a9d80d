SPECIFICATION Spec
CONSTANTS
    Proc = {desktop, command}
    Source = "report.docx"
    Dest = "report.pdf"
    Dir = "project"
    Template <- MCTemplate
    Outside = "/etc/elsewhere"
    MaxMatches = 2
    MaxCorrections = 1
    OldData = {"long_text"}
    Kinds = {"write", "generate", "convert", "scaffold", "delete", "mkdir", "read", "info", "list", "search", "run", "forbid"}
SYMMETRY Symmetry
INVARIANTS
    OldFilesSurvive
    OkIsEarned
    SearchIsComplete
CHECK_DEADLOCK FALSE
