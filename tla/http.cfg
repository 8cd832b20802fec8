CONSTANTS
  Sinks = {l1, l2, f1}
  Rotated = {l1, l2}
  Urls = {}
  Configurers = {c1, c2}
  Writers = {w1}
  None = None
  Conns = {r1, r2}
  Buffers = {b1, b2, b3}
  Configs <- MCConfigs
  Life = 1
  MaxTime = 4
  Width = 4
  MaxNum = 5
  MaxLen = 3
SPECIFICATION PartsSpec
INVARIANTS NoFileLeft BufferAlone AnswerIsOne SumIsRight
PROPERTIES LetInWhileVouched
CHECK_DEADLOCK FALSE
SYMMETRY Symmetry
