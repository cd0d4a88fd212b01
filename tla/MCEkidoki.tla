----------------------------- MODULE MCEkidoki -----------------------------
EXTENDS Ekidoki

CONSTANTS t1, s1, a1, a2, p1, p2, d1, d2, j1, j2, q1, q2, f1

MCTexts       == {t1}
MCShapes      == {s1}
MCAnnotations == {a1, a2}
MCPictures    == {p1, p2}
MCData        == {d1, d2}
MCJobs        == {j1, j2}
MCAsks        == {q1, q2}
MCFlows       == {f1}
MCFirstScene  == {a1}
MCFile        == {a1, t1, [id |-> p1, data |-> d2]}
MCPasteable   == {[id |-> p1, data |-> d1]}

MCHabits == {{"text", "paste", "import", "save", "loss"},
             {"text", "frame", "save", "flow", "again", "others"},
             {"text", "flow", "interpret", "cancel"},
             {"flow", "interpret", "create", "history"},
             {"flow", "interpret", "create", "loss"},
             {"flow", "interpret", "reopen", "loss"},
             {"text", "save", "reopen", "cancel", "loss"},
             {"create", "history", "reopen", "loss"},
             {"shape", "flow", "interpret"}}
=============================================================================
