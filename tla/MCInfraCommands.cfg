SPECIFICATION Spec
CONSTANTS
    o1 = o1
    o2 = o2
    dataset = dataset
    composer = composer
    tf_var = tf_var
    proxy = proxy
    home = home
    None = None
    Operators = {o1, o2}
    Resources = {dataset, composer}
    Optional = {composer}
    Texts <- MCTexts
    BadItems = {"no value"}
    ProjectItem = "project_id"
    Commands <- MCCommands
    Names = {tf_var, proxy, home}
    VendorNames = {}
    EmulatorNames = {}
    PrefixlessNames = {}
    RedirectionNames = {proxy}
    CloudEnvAllow = {}
    EnvAllow = {home}
    TfVarNames <- MCTfVarNames
SYMMETRY Same
INVARIANTS
    TypeOK
    NothingBillsUnknown
    TypedIsPlanned
PROPERTIES
    LostOnlyIfAsked
