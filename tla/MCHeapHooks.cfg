SPECIFICATION Spec
CONSTANTS
  t1 = t1
  t2 = t2
  NoThread = NoThread
  analyzer = analyzer
  ucrtbase = ucrtbase
  ucrtbased = ucrtbased
  app = app
  shared = shared
  static = static
  debug = debug
  Thread <- MCOneThread
  Module <- MCModule
  Self = analyzer
  Preloaded <- MCPreloaded
  Brings <- MCBrings
  System <- MCSystem
  Function <- MCFunction
  Kind <- MCKind
  Crt <- MCCrt
  Imports <- MCImports
  Load = "LoadLibrary"
  Loadable <- MCLoadable
  MaxRefusals = 0
INVARIANTS
  OnlyStaticCrtHeapHooked
