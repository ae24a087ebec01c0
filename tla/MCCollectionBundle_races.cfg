SPECIFICATION BundleSpec
CONSTANTS
    p1 = p1
    p2 = p2
    Absent = Absent
    Ids = {"eks-1", "eks-2"}
    Baselines = {"eks-1"}
    Aged = {"eks-1", "eks-2"}
    Files = {"report", "log"}
    Kept = {"log"}
    Importers = {p1, p2}
    Roots = {"home", "imported"}
    Edits = 1
    Exports = 2
PROPERTIES
    ImportNeverOverwrites
    BaselinesSurvive
CHECK_DEADLOCK FALSE
