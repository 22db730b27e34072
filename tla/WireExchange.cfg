CONSTANTS
    None = None
    NaN = NaN
    Paths <- MCPaths
    Owner <- MCOwner
    Identifiers <- MCIdentifiers
    Namespaced <- MCNamespaced
    TypeNames <- MCTypeNames
    Qualified <- MCQualified
    Fragments <- MCFragments
    Posix <- MCPosix
    CustomText <- MCCustomText
    LayerKeys <- MCLayerKeys
    Generation = "g"
    Scripts <- MCScripts
    MaxTemplates = 2
SPECIFICATION Spec
INVARIANTS
     AdaptersAgree
    PathsAgree MessagesSurvive
