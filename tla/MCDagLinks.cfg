SPECIFICATION Spec
CONSTANTS
    Packages <- MCPackages
PROPERTIES
    PluginCoversEveryLink
    LinksLeadToTheirType
