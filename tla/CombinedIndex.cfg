SPECIFICATION Spec
CONSTANTS
    Thread = {t1, t2}
    Dir = {d1, d2}
    Object = {o1, o2, o3}
    Map = Map
    None = None
SYMMETRY Alike
INVARIANTS RefsExact AnswerCovers
